---------------------------- MODULE Spec2Model ----------------------------
(***************************************************************************)
(* kitchen-printer-tap: the passive capture and session engine             *)
(* (internal/capture), the job entity and store, the reprint detector      *)
(* (internal/job) and the store-and-forward uploader (internal/upload).    *)
(*                                                                         *)
(* Time is a discrete wall clock `now`.  A byte is a small natural, a      *)
(* payload a sequence of bytes.  A job ID (a UUID string in the code) is a *)
(* positive natural, fresh for every job.New; the empty string is NoJobID. *)
(* A SHA-256 hex string is the sequence holding the injective code of the  *)
(* hashed bytes; the empty string is the empty sequence.                   *)
(***************************************************************************)
EXTENDS Integers, Sequences, FiniteSets, TLC

---------------------------------------------------------------------------
(* Bounds of the model *)

\* job.New is called at most MaxJobs times in one behaviour
MaxJobs == 2
\* the wall clock runs from 0 to MaxTime
MaxTime == 2
\* capture.idle_timeout, in clock ticks
IdleTimeout == 1
\* storage.reprint_window_sec, in clock ticks
ReprintWindow == 1
QueueCap == 1
\* the calls of Record made on the reprint detector taken alone
MaxRecords == 3
\* the payload length up to which a job taken alone is appended to
MaxJobLen == 2

---------------------------------------------------------------------------
(* Configuration (config.DefaultConfig, with both printer ports enabled) *)

DeviceID == "kptap-001"
SiteID == "site-001"
Port9100Enabled == TRUE
Port515Enabled == TRUE
MinFreeMB == 100

\* ReprintDetector.window and ReprintDetector.cleanTTL
Window == ReprintWindow
CleanTTL == ReprintWindow * 2

---------------------------------------------------------------------------
(* Values *)

\* the empty string, as a job ID
NoJobID == 0
JobIDs == 1..MaxJobs
\* a file with the given content, and a path at which no file exists
File(content) == [exists |-> TRUE, content |-> content]
NoFile == [exists |-> FALSE, content |-> <<>>]

Bytes == {1, 2}
\* the application-layer payloads a packet can carry
Payloads == {<<>>, <<1>>, <<2>>}
\* the TCP sequence numbers a packet can carry
Seqs == {100, 200}

\* (ip, port) of the hosts on the bridge: one client and two printers
Client == <<"pos", 4000>>
PrinterA == <<"prA", 9100>>
PrinterB == <<"prB", 515>>
Printers == {PrinterA, PrinterB}

\* a decoded packet: addresses, TCP flags, sequence number, application payload
Packet(src, dst, flags, sq, pl) ==
    [src |-> src, dst |-> dst, SYN |-> "SYN" \in flags, FIN |-> "FIN" \in flags,
     RST |-> "RST" \in flags, seq |-> sq, payload |-> pl]

\* the (sequence number, payload) pairs of the data segments sent to a printer:
\* every pair to the first printer, one segment with or without payload to the other
DataSegments(pr) ==
    IF pr = PrinterA THEN Seqs \X Payloads ELSE {<<100, <<>>>>, <<100, <<1>>>>}

\* the packets the packet source can yield.  Toward a printer: data segments, and
\* SYN, FIN and RST segments with and without payload.  From a printer: segments
\* with each flag, and one that carries payload.  And one segment that concerns
\* no printer port.
Packets ==
    {Packet(Client, PrinterA, {}, d[1], d[2]) : d \in DataSegments(PrinterA)}
    \cup {Packet(Client, PrinterB, {}, d[1], d[2]) : d \in DataSegments(PrinterB)}
    \cup {Packet(Client, pr, {fl}, 100, pl) :
              pr \in Printers, fl \in {"SYN", "FIN", "RST"}, pl \in {<<>>, <<1>>}}
    \cup {Packet(pr, Client, fl, 100, <<>>) :
              pr \in Printers, fl \in {{}, {"SYN"}, {"FIN"}, {"RST"}}}
    \cup {Packet(pr, Client, {}, 100, <<1>>) : pr \in Printers}
    \cup {Packet(Client, Client, {}, 100, <<1>>)}

\* the elements of a sequence
Range(s) == {s[i] : i \in DOMAIN s}

\* the sequences that enumerate the set S without repetition
Orders(S) ==
    {o \in [1..Cardinality(S) -> S] : \A i, j \in 1..Cardinality(S) : o[i] = o[j] => i = j}

\* a delete that leaves the key in place
WithoutNothing(f, k) == f

\* the function f with the key k removed
Without(f, k) == [x \in (DOMAIN f) \ {k} |-> f[x]]

---------------------------------------------------------------------------
(* internal/job: Job *)

\* crypto/sha256 followed by hex.EncodeToString: an injective code of the bytes
RECURSIVE Sha256Code(_)
Sha256Code(data) ==
    IF data = <<>> THEN 1
    ELSE Sha256Code(SubSeq(data, 1, Len(data) - 1)) * (Cardinality(Bytes) + 1)
         + data[Len(data)]

Sha256Hex(data) == <<Sha256Code(data)>>

\* job.New: a new open job; the ID is fresh, the start timestamp is the time of the call
NewJob(id, printerIP, printerPort, srcIP, transport, t) ==
    [JobID |-> id, DeviceID |-> DeviceID, SiteID |-> SiteID,
     PrinterIP |-> printerIP, PrinterPort |-> printerPort, SrcIP |-> srcIP,
     CaptureStartTS |-> t, CaptureEndTS |-> 0, ByteLen |-> 0, SHA256 |-> <<>>,
     Transport |-> transport, Tags |-> <<>>, ReprintOfJobID |-> NoJobID,
     Data |-> <<>>, closed |-> FALSE]

\* an Append that puts the new bytes in front of the payload
JobPrepend(j, data) ==
    IF j.closed THEN [ok |-> FALSE, job |-> j]
    ELSE [ok |-> TRUE, job |-> [j EXCEPT !.Data = data \o j.Data]]

\* Job.Append: [ok, job]
JobAppend(j, data) ==
    IF j.closed THEN [ok |-> FALSE, job |-> j]
    ELSE [ok |-> TRUE, job |-> [j EXCEPT !.Data = j.Data \o data]]

\* a Close that takes the length before the hash is final and loses the last byte
JobCloseShortLen(j, t) ==
    IF j.closed THEN j
    ELSE [j EXCEPT !.closed = TRUE, !.CaptureEndTS = t,
                   !.ByteLen = IF Len(j.Data) > 1 THEN Len(j.Data) - 1 ELSE Len(j.Data),
                   !.SHA256 = Sha256Hex(j.Data)]

\* a Close that seals again a job that is closed
JobCloseAgain(j, t) ==
    [j EXCEPT !.closed = TRUE, !.CaptureEndTS = t,
              !.ByteLen = Len(j.Data),
              !.SHA256 = Sha256Hex(j.Data)]

\* Job.Close
JobClose(j, t) ==
    IF j.closed THEN j
    ELSE [j EXCEPT !.closed = TRUE, !.CaptureEndTS = t,
                   !.ByteLen = Len(j.Data),
                   !.SHA256 = Sha256Hex(j.Data)]

\* Job.IsClosed
JobIsClosed(j) == j.closed

\* Job.GetHash
JobGetHash(j) == j.SHA256

\* Job.AddTag
JobAddTag(j, tag) == [j EXCEPT !.Tags = Append(j.Tags, tag)]

\* a SetReprintOf that takes the job out of its closed state
JobSetReprintOfReopens(j, jobID) ==
    [j EXCEPT !.ReprintOfJobID = jobID, !.Tags = Append(j.Tags, "reprint"),
              !.closed = FALSE]

\* Job.SetReprintOf
JobSetReprintOf(j, jobID) ==
    IF \E i \in DOMAIN j.Tags : j.Tags[i] = "reprint"
    THEN [j EXCEPT !.ReprintOfJobID = jobID]
    ELSE [j EXCEPT !.ReprintOfJobID = jobID, !.Tags = Append(j.Tags, "reprint")]

\* the Metadata of a job (the struct without the payload and the lifecycle flag)
MetadataOf(j) ==
    [JobID |-> j.JobID, DeviceID |-> j.DeviceID, SiteID |-> j.SiteID,
     PrinterIP |-> j.PrinterIP, PrinterPort |-> j.PrinterPort, SrcIP |-> j.SrcIP,
     CaptureStartTS |-> j.CaptureStartTS, CaptureEndTS |-> j.CaptureEndTS,
     ByteLen |-> j.ByteLen, SHA256 |-> j.SHA256, Transport |-> j.Transport,
     Tags |-> j.Tags, ReprintOfJobID |-> j.ReprintOfJobID]

\* the JSON keys that `omitempty` leaves out of the marshalled object
OmittedKeys(meta) ==
    (IF meta.Tags = <<>> THEN {"tags"} ELSE {})
    \cup (IF meta.ReprintOfJobID = NoJobID THEN {"reprint_of_job_id"} ELSE {})

\* json.MarshalIndent(job.Metadata): the JSON object, a function from its keys
MarshalMetadata(meta) ==
    LET all == [job_id |-> meta.JobID, device_id |-> meta.DeviceID,
                site_id |-> meta.SiteID, printer_ip |-> meta.PrinterIP,
                printer_port |-> meta.PrinterPort, src_ip |-> meta.SrcIP,
                capture_start_ts |-> meta.CaptureStartTS,
                capture_end_ts |-> meta.CaptureEndTS, byte_len |-> meta.ByteLen,
                sha256 |-> meta.SHA256, transport |-> meta.Transport,
                tags |-> meta.Tags, reprint_of_job_id |-> meta.ReprintOfJobID]
    IN  [k \in (DOMAIN all) \ OmittedKeys(meta) |-> all[k]]

---------------------------------------------------------------------------
(* internal/upload: UploadStatus and the sidecar file *)

\* Upload.MaxRetries of config.DefaultConfig
MaxRetries == 3

\* the zero UploadStatus (LastAttempt and UploadedAt, which nothing reads, are
\* left out)
ZeroStatus == [JobID |-> NoJobID, Status |-> "", Attempts |-> 0, LastError |-> ""]

\* <id>.upload.json: absent, holding the JSON of a status, or (valid = FALSE)
\* created or truncated by os.WriteFile and not written yet
NoSidecar == [exists |-> FALSE, valid |-> FALSE, st |-> ZeroStatus]
TruncatedSidecar == [exists |-> TRUE, valid |-> FALSE, st |-> ZeroStatus]
SidecarOf(status) == [exists |-> TRUE, valid |-> TRUE, st |-> status]

\* Uploader.loadOrCreateStatus
LoadOrCreateStatus(sc, jobID) ==
    IF sc.exists /\ sc.valid THEN sc.st
    ELSE [JobID |-> jobID, Status |-> "pending", Attempts |-> 0, LastError |-> ""]

\* what client.Do gives Uploader.upload: an error (no connection, timeout) or a
\* response with a status code
Responses ==
    {[err |-> TRUE, code |-> 0]}
    \cup {[err |-> FALSE, code |-> c] : c \in {199, 200, 299, 300, 500}}

\* the webhook answered the request, with a 2xx status
Answered2xx(resp) == ~resp.err /\ resp.code \in 200..299

\* an upload that takes any answer of the webhook for a success
UploadOkAnyAnswer(resp) == ~resp.err

\* Uploader.upload returns nil
UploadOk(resp) == ~resp.err /\ ~(resp.code < 200 \/ resp.code >= 300)

\* a processJob that uploads whatever the sidecar says
NeverUploaded(status) == FALSE

\* processJob: status.Status == "uploaded", the job is skipped
AlreadyUploaded(status) == status.Status = "uploaded"

\* scanPending: status.Status != "uploaded", the job is enqueued
NeedsUpload(status) == status.Status # "uploaded"

---------------------------------------------------------------------------
(* internal/job: Store *)

\* the four paths Save uses for one job: <id>.bin, <id>.json and their .tmp files
\* (the date directory is a function of the job's CaptureStartTS, so of the job)
NoFiles == [bin |-> NoFile, json |-> NoFile, binTmp |-> NoFile, jsonTmp |-> NoFile]

\* tmpBinPath, tmpJSONPath
TmpOf(final) == IF final = "bin" THEN "binTmp" ELSE "jsonTmp"

\* syscall.Statfs results: an error, or the available blocks and the block size
StatfsResults ==
    {[err |-> TRUE, bavail |-> 0, bsize |-> 4096]}
    \cup {[err |-> FALSE, bavail |-> b, bsize |-> 4096] :
              b \in {MinFreeMB * 256 - 1, MinFreeMB * 256}}

\* a space check that wants more than min_free_mb
HasMoreSpace(statfs) ==
    IF statfs.err THEN TRUE
    ELSE ((statfs.bavail * statfs.bsize) \div (1024 * 1024)) > MinFreeMB

\* Store.hasEnoughSpace
HasEnoughSpace(statfs) ==
    IF statfs.err THEN TRUE
    ELSE ((statfs.bavail * statfs.bsize) \div (1024 * 1024)) >= MinFreeMB

\* a position in Save: a step of Save itself (file = "") or a step of the
\* writeFileAtomic call for <id>.bin or <id>.json
At(file, step) == [file |-> file, step |-> step]

\* the steps of writeFileAtomic, in order
WriteSteps == <<"open", "write", "sync", "close", "rename">>

\* the I/O steps of Save that can fail (step "none": no step fails)
SaveFaults ==
    {At("", "none"), At("", "mkdir"), At("", "marshal")}
    \cup {At(f, WriteSteps[i]) : f \in {"bin", "json"}, i \in DOMAIN WriteSteps}

\* what the environment decides for one Save: the free space and the failing step
SaveEnvs == [statfs: StatfsResults, fault: SaveFaults]

\* Store.writeFileAtomic, one step: the files after step `step` of writing `data`
\* to `final` through its .tmp file; `fail` says whether the system call fails
WriteFileAtomicStep(fs, final, step, data, fail) ==
    LET tmp == TmpOf(final) IN
    IF step = "open" THEN
        IF fail THEN fs ELSE [fs EXCEPT ![tmp] = File(<<>>)]
    ELSE IF fail THEN [fs EXCEPT ![tmp] = NoFile]
    ELSE IF step = "write" THEN [fs EXCEPT ![tmp] = File(data)]
    ELSE IF step = "rename" THEN [fs EXCEPT ![final] = fs[tmp], ![tmp] = NoFile]
    ELSE fs

\* the step after `step` of writeFileAtomic ("" after the rename)
NextWriteStep(step) ==
    IF step = "open" THEN "write"
    ELSE IF step = "write" THEN "sync"
    ELSE IF step = "sync" THEN "close"
    ELSE IF step = "close" THEN "rename"
    ELSE ""

\* an error path of Save that leaves the binary in place
KeepBin(fs) == fs

\* os.Remove(binPath) on the error paths of Save that follow the binary write
RemoveBin(fs) == [fs EXCEPT !.bin = NoFile]

\* Store.Save, one step.  st = [fs, pc, err]: the job's files, the next step and,
\* once pc is "returned", whether Save returned an error
SaveStep(st, job, env) ==
    LET fail == env.fault = st.pc
        ret(fs, err) == [fs |-> fs, pc |-> At("", "returned"), err |-> err]
    IN
    IF st.pc = At("", "closed") THEN
        IF ~JobIsClosed(job) THEN ret(st.fs, TRUE) ELSE [st EXCEPT !.pc = At("", "space")]
    ELSE IF st.pc = At("", "space") THEN
        IF ~HasEnoughSpace(env.statfs) THEN ret(st.fs, TRUE)
        ELSE [st EXCEPT !.pc = At("", "mkdir")]
    ELSE IF st.pc = At("", "mkdir") THEN
        IF fail THEN ret(st.fs, TRUE) ELSE [st EXCEPT !.pc = At("bin", "open")]
    ELSE IF st.pc = At("", "marshal") THEN
        IF fail THEN ret(RemoveBin(st.fs), TRUE) ELSE [st EXCEPT !.pc = At("json", "open")]
    ELSE IF st.pc.file = "" THEN st
    ELSE
        LET final == st.pc.file
            step == st.pc.step
            fs2 == IF final = "bin"
                   THEN WriteFileAtomicStep(st.fs, final, step, job.Data, fail)
                   ELSE WriteFileAtomicStep(st.fs, final, step,
                                            MarshalMetadata(MetadataOf(job)), fail)
        IN  IF fail THEN ret(IF final = "json" THEN RemoveBin(fs2) ELSE fs2, TRUE)
            ELSE IF step # "rename"
                 THEN [st EXCEPT !.fs = fs2, !.pc = At(final, NextWriteStep(step))]
            ELSE IF final = "bin" THEN [st EXCEPT !.fs = fs2, !.pc = At("", "marshal")]
            ELSE ret(fs2, FALSE)

\* the state in which Save is entered
SaveEntry(fs) == [fs |-> fs, pc |-> At("", "closed"), err |-> FALSE]

\* Store.Save from entry to return: [fs, pc, err]
RECURSIVE SaveRun(_, _, _)
SaveRun(st, job, env) ==
    IF st.pc = At("", "returned") THEN st ELSE SaveRun(SaveStep(st, job, env), job, env)

StoreSave(fs, job, env) == SaveRun(SaveEntry(fs), job, env)

---------------------------------------------------------------------------
(* internal/job: ReprintDetector *)

\* a Check that matches entries of any printer
ReprintCheckAnyPrinter(hs, hash, printerIP, t) ==
    IF hash \notin DOMAIN hs THEN NoJobID
    ELSE LET entries == hs[hash]
             hits == {i \in DOMAIN entries : t - entries[i].timestamp <= Window}
         IN  IF hits = {} THEN NoJobID
             ELSE entries[CHOOSE i \in hits : \A k \in hits : i <= k].jobID

\* a Check that matches entries of any age
ReprintCheckNoWindow(hs, hash, printerIP, t) ==
    IF hash \notin DOMAIN hs THEN NoJobID
    ELSE LET entries == hs[hash]
             hits == {i \in DOMAIN entries : entries[i].printerIP = printerIP}
         IN  IF hits = {} THEN NoJobID
             ELSE entries[CHOOSE i \in hits : \A k \in hits : i <= k].jobID

\* a Check that returns the last matching entry of the bucket
ReprintCheckLatest(hs, hash, printerIP, t) ==
    IF hash \notin DOMAIN hs THEN NoJobID
    ELSE LET entries == hs[hash]
             hits == {i \in DOMAIN entries :
                         entries[i].printerIP = printerIP
                         /\ t - entries[i].timestamp <= Window}
         IN  IF hits = {} THEN NoJobID
             ELSE entries[CHOOSE i \in hits : \A k \in hits : i >= k].jobID

\* ReprintDetector.Check: the job ID of the first entry of the hash's bucket that
\* matches the printer and is no older than the window, or the empty string
ReprintCheck(hs, hash, printerIP, t) ==
    IF hash \notin DOMAIN hs THEN NoJobID
    ELSE LET entries == hs[hash]
             hits == {i \in DOMAIN entries :
                         entries[i].printerIP = printerIP
                         /\ t - entries[i].timestamp <= Window}
         IN  IF hits = {} THEN NoJobID
             ELSE entries[CHOOSE i \in hits : \A k \in hits : i <= k].jobID

\* ReprintDetector.Record
ReprintRecord(hs, hash, printerIP, jobID, t) ==
    LET entry == [jobID |-> jobID, printerIP |-> printerIP, timestamp |-> t]
        old == IF hash \in DOMAIN hs THEN hs[hash] ELSE <<>>
    IN  [h \in (DOMAIN hs) \cup {hash} |-> IF h = hash THEN Append(old, entry) ELSE hs[h]]

\* a cleanup that evicts what has reached the reprint window
ReprintCleanupEager(hs, t) ==
    LET valid(h) == SelectSeq(hs[h], LAMBDA e : t - e.timestamp < Window)
    IN  [h \in {x \in DOMAIN hs : valid(x) # <<>>} |-> valid(h)]

\* ReprintDetector.cleanup
ReprintCleanup(hs, t) ==
    LET valid(h) == SelectSeq(hs[h], LAMBDA e : t - e.timestamp <= CleanTTL)
    IN  [h \in {x \in DOMAIN hs : valid(x) # <<>>} |-> valid(h)]

---------------------------------------------------------------------------
(* State *)

VARIABLES
    \* internal/capture: Capturer
    sessions,       \* Capturer.sessions: session key -> session
    done,           \* Capturer.done is closed
    pktTask,        \* the processPackets goroutine: "running" or "exited"
    sweepTask,      \* the sessionTimeoutLoop goroutine: "running" or "exited"
    stopPC,         \* Capturer.Stop: "idle", "waiting" (in wg.Wait), "draining"
                    \* (in its loop, where the loop is run lock by lock) or "stopped"
    \* capture.Stats
    jobsCaptured, bytesCaptured, parseErrors,
    \* internal/job
    files,          \* the store's directory: job ID -> the job's four paths
    hashes,         \* ReprintDetector.hashes: hash -> sequence of entries
    nextID,         \* the job ID the next job.New draws
    now,            \* the clock
    \* history, read by the properties only
    finalized,      \* job ID -> what finalizeSession did with the job
    openAtStop,     \* the IDs of the non-empty jobs open when Stop closed done
    \* a Store.Save in progress, step by step
    saveSt,         \* [fs, pc, err] of the Save in progress; pc.step "idle": none
    saveJob,        \* the job being saved
    saveEnv         \* what the environment decides for this Save

captureVars ==
    <<sessions, done, pktTask, sweepTask, stopPC, jobsCaptured, bytesCaptured,
      parseErrors, files, hashes, nextID, now, finalized, openAtStop>>

storeVars == <<saveSt, saveJob, saveEnv>>

VARIABLES
    mu              \* Capturer.mu: "none" when unlocked, else the task that holds
                    \* it, "packet", "sweeper", "stop" or "reader"

lockVars == <<mu>>

VARIABLES
    cleanTask       \* the cleanupLoop goroutine of the ReprintDetector: "running"

detectorVars == <<cleanTask>>

VARIABLES
    held,           \* ReprintDetector.mu, Store.mu and Job.mu: lock -> "none" or
                    \* the task that holds it
    script          \* task -> the Lock and Unlock calls the call it is in still
                    \* has to make, in order

orderVars == <<held, script>>

\* the tasks that take locks: processPackets, sessionTimeoutLoop, Stop, a caller
\* of GetActiveSessions (health server, stats logger) and cleanupLoop
OrderTasks == {"packet", "sweeper", "stop", "reader", "cleanup"}

\* the mutexes besides Capturer.mu
OrderLocks == {"detector", "store", "job"}

VARIABLES
    \* internal/upload: Uploader, and main around it
    upEnabled,      \* cfg.Upload.Enabled
    upPC,           \* main: "new" (upload.New done), "started" (after Start),
                    \* "waiting" (Stop closed done, in wg.Wait) or "stopped"
    upDone,         \* Uploader.done is closed
    queue,          \* Uploader.queue: the base paths (job IDs) in the channel
    queueSize,      \* Uploader.queueSize
    wk,             \* the worker goroutine: position and locals of processJob
    scan,           \* the scanPending goroutine: position and the paths to walk
    sidecars,       \* job ID -> the file <id>.upload.json
    handed,         \* the job IDs Enqueue was called with since the process started
    accepted        \* the job IDs the webhook has answered a request for with 2xx

uploadVars == <<upEnabled, upPC, upDone, queue, queueSize, wk, scan, sidecars,
                handed, accepted>>

vars == <<captureVars, storeVars, uploadVars, lockVars, detectorVars, orderVars>>

---------------------------------------------------------------------------
(* internal/capture *)

\* Capturer.isPrinterPort
IsPrinterPort(port) ==
    \/ port = 9100 /\ Port9100Enabled
    \/ port = 515 /\ Port515Enabled

\* Capturer.getTransport
GetTransport(port) ==
    IF port = 9100 THEN "tcp9100" ELSE IF port = 515 THEN "lpd" ELSE "unknown"

\* a classification that takes the packets from the printer as data of the flow
ClassifyBothToward(p) ==
    IF IsPrinterPort(p.dst[2]) THEN
        [printer |-> TRUE, toward |-> TRUE, printerIP |-> p.dst[1],
         printerPort |-> p.dst[2], posIP |-> p.src[1], srcPort |-> p.src[2],
         transport |-> GetTransport(p.dst[2]),
         key |-> <<p.src[1], p.src[2], p.dst[1], p.dst[2]>>]
    ELSE IF IsPrinterPort(p.src[2]) THEN
        [printer |-> TRUE, toward |-> TRUE, printerIP |-> p.src[1],
         printerPort |-> p.src[2], posIP |-> p.dst[1], srcPort |-> p.src[2],
         transport |-> GetTransport(p.src[2]),
         key |-> <<p.dst[1], p.dst[2], p.src[1], p.src[2]>>]
    ELSE
        [printer |-> FALSE, toward |-> FALSE, printerIP |-> "",
         printerPort |-> 0, posIP |-> "", srcPort |-> p.src[2],
         transport |-> "", key |-> <<"", 0, "", 0>>]

\* a classification that looks at the destination port alone
ClassifyByDestination(p) ==
    IF IsPrinterPort(p.dst[2]) THEN
        [printer |-> TRUE, toward |-> TRUE, printerIP |-> p.dst[1],
         printerPort |-> p.dst[2], posIP |-> p.src[1], srcPort |-> p.src[2],
         transport |-> GetTransport(p.dst[2]),
         key |-> <<p.src[1], p.src[2], p.dst[1], p.dst[2]>>]
    ELSE
        [printer |-> FALSE, toward |-> FALSE, printerIP |-> "",
         printerPort |-> 0, posIP |-> "", srcPort |-> p.src[2],
         transport |-> "", key |-> <<"", 0, "", 0>>]

\* handlePacket, direction and session key: whether the packet concerns a printer
\* port, whether it flows toward the printer, the printer and client addresses and
\* the key "posIP:port->printerIP:printerPort"
Classify(p) ==
    LET srcIP == p.src[1]
        srcPort == p.src[2]
        dstIP == p.dst[1]
        dstPort == p.dst[2]
    IN  IF IsPrinterPort(dstPort) THEN
            [printer |-> TRUE, toward |-> TRUE, printerIP |-> dstIP,
             printerPort |-> dstPort, posIP |-> srcIP, srcPort |-> srcPort,
             transport |-> GetTransport(dstPort),
             key |-> <<srcIP, srcPort, dstIP, dstPort>>]
        ELSE IF IsPrinterPort(srcPort) THEN
            [printer |-> TRUE, toward |-> FALSE, printerIP |-> srcIP,
             printerPort |-> srcPort, posIP |-> dstIP, srcPort |-> srcPort,
             transport |-> GetTransport(srcPort),
             key |-> <<dstIP, dstPort, srcIP, srcPort>>]
        ELSE
            [printer |-> FALSE, toward |-> FALSE, printerIP |-> "",
             printerPort |-> 0, posIP |-> "", srcPort |-> srcPort,
             transport |-> "", key |-> <<"", 0, "", 0>>]

\* the session created by a SYN toward the printer
NewSession(c, id, t) ==
    [job |-> NewJob(id, c.printerIP, c.printerPort, c.posIP, c.transport, t),
     lastSeen |-> t, srcIP |-> c.posIP, dstIP |-> c.printerIP,
     srcPort |-> c.srcPort, dstPort |-> c.printerPort, transport |-> c.transport,
     seqTracker |-> {}, nextSeq |-> 0, initialized |-> FALSE]

\* what finalizeSession reads and writes besides the session
World ==
    [files |-> files, hashes |-> hashes, jobsCaptured |-> jobsCaptured,
     parseErrors |-> parseErrors, finalized |-> finalized]

\* the history entry of a finalized job: the job as finalizeSession left it, what
\* became of it ("empty", "saved", "failed") and its rank among the finalized jobs
Outcome(w, job, outcome, t) ==
    [x \in (DOMAIN w.finalized) \cup {job.JobID} |->
        IF x = job.JobID
        THEN [job |-> job, outcome |-> outcome, ord |-> Cardinality(DOMAIN w.finalized) + 1]
        ELSE w.finalized[x]]

\* a finalizeSession that hands empty jobs to the store
NeverSkip(job) == FALSE

\* finalizeSession: "Skip empty jobs"
SkipEmpty(job) == job.ByteLen = 0

\* Capturer.finalizeSession
FinalizeSession(w, sess, env, t) ==
    LET closed == JobClose(sess.job, t)
        id == closed.JobID
    IN
    IF SkipEmpty(closed) THEN
        [w EXCEPT !.finalized = Outcome(w, closed, "empty", t)]
    ELSE
        LET originalID == ReprintCheck(w.hashes, JobGetHash(closed), sess.dstIP, t)
            job == IF originalID # NoJobID THEN JobSetReprintOf(closed, originalID)
                   ELSE closed
            recorded == ReprintRecord(w.hashes, JobGetHash(job), sess.dstIP, id, t)
            saved == StoreSave(w.files[id], job, env)
        IN  IF saved.err THEN
                [w EXCEPT !.hashes = recorded,
                          !.files = [w.files EXCEPT ![id] = saved.fs],
                          !.parseErrors = w.parseErrors + 1,
                          !.finalized = Outcome(w, job, "failed", t)]
            ELSE
                [w EXCEPT !.hashes = recorded,
                          !.files = [w.files EXCEPT ![id] = saved.fs],
                          !.jobsCaptured = w.jobsCaptured + 1,
                          !.finalized = Outcome(w, job, "saved", t)]

\* finalizeSession for the sessions of keys[1], keys[2], ... in this order, each
\* with the environment envs gives its key
RECURSIVE FinalizeAll(_, _, _, _, _)
FinalizeAll(w, ss, keys, envs, t) ==
    IF keys = <<>> THEN w
    ELSE FinalizeAll(FinalizeSession(w, ss[Head(keys)], envs[Head(keys)], t),
                     ss, Tail(keys), envs, t)

\* a finalizeSession that does not count failed saves
SetWorldUncounted(w) ==
    /\ files' = w.files
    /\ hashes' = w.hashes
    /\ jobsCaptured' = w.jobsCaptured
    /\ parseErrors' = parseErrors
    /\ finalized' = w.finalized

\* a finalizeSession that clears parse_errors when a save succeeds
SetWorldForgiving(w) ==
    /\ files' = w.files
    /\ hashes' = w.hashes
    /\ jobsCaptured' = w.jobsCaptured
    /\ parseErrors' = IF w.jobsCaptured > jobsCaptured THEN 0 ELSE w.parseErrors
    /\ finalized' = w.finalized

\* the world becomes w
SetWorld(w) ==
    /\ files' = w.files
    /\ hashes' = w.hashes
    /\ jobsCaptured' = w.jobsCaptured
    /\ parseErrors' = w.parseErrors
    /\ finalized' = w.finalized

\* the environments of Save that the capture tasks are run against: every
\* Statfs result without a failure, and a failure after <id>.bin is in place
\* (SpecStore runs Save against every environment)
CaptureSaveEnvs ==
    {e \in SaveEnvs :
        \/ e.fault = At("", "none")
        \/ e.fault = At("json", "rename") /\ e.statfs.err}

\* a handlePacket that stamps the job's start at its first payload
AcceptSegmentStampsStart(sess, p, t) ==
    LET seen == [sess EXCEPT !.lastSeen = t] IN
    IF p.payload = <<>> THEN [sess |-> seen, added |-> 0]
    ELSE
        LET latched == IF seen.initialized THEN seen
                       ELSE [seen EXCEPT !.nextSeq = p.seq, !.initialized = TRUE,
                                         !.job.CaptureStartTS = t]
        IN  IF p.seq \in latched.seqTracker
            THEN [sess |-> latched, added |-> 0]
            ELSE
                LET r == JobAppend(latched.job, p.payload) IN
                [sess |-> [latched EXCEPT !.seqTracker = @ \cup {p.seq}, !.job = r.job],
                 added |-> IF r.ok THEN Len(p.payload) ELSE 0]

\* a handlePacket that appends every segment with payload, seen before or not
AcceptEverySegment(sess, p, t) ==
    LET seen == [sess EXCEPT !.lastSeen = t] IN
    IF p.payload = <<>> THEN [sess |-> seen, added |-> 0]
    ELSE
        LET latched == IF seen.initialized THEN seen
                       ELSE [seen EXCEPT !.nextSeq = p.seq, !.initialized = TRUE]
            r == JobAppend(latched.job, p.payload)
        IN  [sess |-> [latched EXCEPT !.seqTracker = @ \cup {p.seq}, !.job = r.job],
             added |-> IF r.ok THEN Len(p.payload) ELSE 0]

\* Capturer.handlePacket, the part after the FIN/RST check for a packet toward the
\* printer whose session exists: the session after the packet and the bytes added
\* to bytes_captured
AcceptSegment(sess, p, t) ==
    LET seen == [sess EXCEPT !.lastSeen = t] IN
    IF p.payload = <<>> THEN [sess |-> seen, added |-> 0]
    ELSE
        LET latched == IF seen.initialized THEN seen
                       ELSE [seen EXCEPT !.nextSeq = p.seq, !.initialized = TRUE]
        IN  IF p.seq \in latched.seqTracker
            THEN [sess |-> latched, added |-> 0]
            ELSE
                LET r == JobAppend(latched.job, p.payload) IN
                [sess |-> [latched EXCEPT !.seqTracker = @ \cup {p.seq}, !.job = r.job],
                 added |-> IF r.ok THEN Len(p.payload) ELSE 0]

\* a handlePacket that opens a session for any packet toward the printer
OpensSessionAlways(p) == TRUE

\* handlePacket: a packet for which no session exists opens one if tcp.SYN
OpensSession(p) == p.SYN

\* a handlePacket that takes the payload of a FIN or RST into the job before
\* it finalizes the session
ClosingSessionAppends(sess, p, t) == AcceptSegment(sess, p, t).sess

\* handlePacket, "Handle connection close": the session handed to
\* finalizeSession is the one in the table; the segment's payload is not read
ClosingSession(sess, p, t) == sess

\* Capturer.handlePacket, called by processPackets for one packet of the source:
\* from c.mu.Lock() to its return, the lock aside
HandlePacketLocked(p) ==
    LET c == Classify(p) IN
    /\ pktTask = "running"
    /\ UNCHANGED <<storeVars, uploadVars, detectorVars, orderVars>>
    /\ UNCHANGED <<done, pktTask, sweepTask, stopPC, now, openAtStop>>
    /\ IF ~c.printer THEN
            /\ UNCHANGED <<sessions, jobsCaptured, bytesCaptured, parseErrors, files,
                           hashes, nextID, finalized>>
       ELSE IF p.FIN \/ p.RST THEN
            IF c.key \in DOMAIN sessions THEN
                /\ \E env \in CaptureSaveEnvs :
                       SetWorld(FinalizeSession(World, ClosingSession(sessions[c.key], p, now),
                                                env, now))
                /\ sessions' = Without(sessions, c.key)
                /\ UNCHANGED <<bytesCaptured, nextID>>
            ELSE
                /\ UNCHANGED <<sessions, jobsCaptured, bytesCaptured, parseErrors,
                               files, hashes, nextID, finalized>>
       ELSE IF ~c.toward THEN
            /\ UNCHANGED <<sessions, jobsCaptured, bytesCaptured, parseErrors, files,
                           hashes, nextID, finalized>>
       ELSE IF c.key \notin DOMAIN sessions THEN
            IF OpensSession(p) THEN
                /\ nextID <= MaxJobs
                /\ sessions' = [k \in (DOMAIN sessions) \cup {c.key} |->
                                   IF k = c.key THEN NewSession(c, nextID, now)
                                   ELSE sessions[k]]
                /\ nextID' = nextID + 1
                /\ UNCHANGED <<jobsCaptured, bytesCaptured, parseErrors, files,
                               hashes, finalized>>
            ELSE
                /\ UNCHANGED <<sessions, jobsCaptured, bytesCaptured, parseErrors,
                               files, hashes, nextID, finalized>>
       ELSE
            LET r == AcceptSegment(sessions[c.key], p, now) IN
            /\ sessions' = [sessions EXCEPT ![c.key] = r.sess]
            /\ bytesCaptured' = bytesCaptured + r.added
            /\ UNCHANGED <<jobsCaptured, parseErrors, files, hashes, nextID, finalized>>

\* Capturer.handlePacket as one step: the lock is taken and released within it
HandlePacket(p) == HandlePacketLocked(p) /\ UNCHANGED lockVars

\* processPackets returns: done is closed (or the packet source is)
PacketLoopExit ==
    /\ UNCHANGED openAtStop
    /\ UNCHANGED <<storeVars, uploadVars, lockVars, detectorVars, orderVars>>
    /\ pktTask = "running"
    /\ done
    /\ pktTask' = "exited"
    /\ UNCHANGED <<sessions, done, sweepTask, stopPC, jobsCaptured, bytesCaptured,
                   parseErrors, files, hashes, nextID, now, finalized>>

\* a sweep that lets a session stay until it is idle for longer than the timeout
ExpiredLater(ss, t) == {k \in DOMAIN ss : t - ss[k].lastSeen > IdleTimeout}

\* the sessions checkTimeouts finalizes at time t
Expired(ss, t) == {k \in DOMAIN ss : t - ss[k].lastSeen >= IdleTimeout}

\* Capturer.checkTimeouts, called by sessionTimeoutLoop on a tick of its ticker
CheckTimeouts ==
    /\ UNCHANGED openAtStop
    /\ UNCHANGED <<storeVars, uploadVars, lockVars, detectorVars, orderVars>>
    /\ sweepTask = "running"
    /\ LET expired == Expired(sessions, now) IN
       /\ \E keys \in Orders(expired) : \E envs \in [expired -> CaptureSaveEnvs] :
              SetWorld(FinalizeAll(World, sessions, keys, envs, now))
       /\ sessions' = [k \in (DOMAIN sessions) \ expired |-> sessions[k]]
    /\ UNCHANGED <<done, pktTask, sweepTask, stopPC, bytesCaptured, nextID, now>>

\* sessionTimeoutLoop returns: done is closed
SweeperExit ==
    /\ UNCHANGED openAtStop
    /\ UNCHANGED <<storeVars, uploadVars, lockVars, detectorVars, orderVars>>
    /\ sweepTask = "running"
    /\ done
    /\ sweepTask' = "exited"
    /\ UNCHANGED <<sessions, done, pktTask, stopPC, jobsCaptured, bytesCaptured,
                   parseErrors, files, hashes, nextID, now, finalized>>

\* Capturer.Stop, up to wg.Wait: close(c.done) and handle.Close()
StopBegin ==
    /\ UNCHANGED <<storeVars, uploadVars, lockVars, detectorVars, orderVars>>
    /\ stopPC = "idle"
    /\ done' = TRUE
    /\ stopPC' = "waiting"
    /\ openAtStop' = {sessions[k].job.JobID :
                         k \in {x \in DOMAIN sessions : sessions[x].job.Data # <<>>}}
    /\ UNCHANGED <<sessions, pktTask, sweepTask, jobsCaptured, bytesCaptured,
                   parseErrors, files, hashes, nextID, now, finalized>>

\* a drain that deletes the sessions without finalizing them
DrainNone(ss) == {}

\* Capturer.Stop: the sessions the drain loop ranges over
DrainKeys(ss) == DOMAIN ss

\* Capturer.Stop, after wg.Wait: every remaining session is finalized and deleted
StopDrain ==
    /\ UNCHANGED openAtStop
    /\ UNCHANGED <<storeVars, uploadVars, lockVars, detectorVars, orderVars>>
    /\ stopPC = "waiting"
    /\ pktTask = "exited"
    /\ sweepTask = "exited"
    /\ \E keys \in Orders(DrainKeys(sessions)) :
          \E envs \in [DrainKeys(sessions) -> CaptureSaveEnvs] :
              SetWorld(FinalizeAll(World, sessions, keys, envs, now))
    /\ sessions' = [k \in {} |-> 0]
    /\ stopPC' = "stopped"
    /\ UNCHANGED <<done, pktTask, sweepTask, bytesCaptured, nextID, now>>

\* ReprintDetector.cleanup, called by cleanupLoop on a tick of its ticker
CleanupTick ==
    /\ UNCHANGED openAtStop
    /\ UNCHANGED <<storeVars, uploadVars, lockVars, detectorVars, orderVars>>
    /\ cleanTask = "running"
    /\ hashes' = ReprintCleanup(hashes, now)
    /\ UNCHANGED <<sessions, done, pktTask, sweepTask, stopPC, jobsCaptured,
                   bytesCaptured, parseErrors, files, nextID, now, finalized>>

\* time passes (the clock counts from the first job.New)
Tick ==
    /\ UNCHANGED openAtStop
    /\ UNCHANGED <<storeVars, uploadVars, lockVars, detectorVars, orderVars>>
    /\ now < MaxTime
    /\ nextID > 1
    /\ now' = now + 1
    /\ UNCHANGED <<sessions, done, pktTask, sweepTask, stopPC, jobsCaptured,
                   bytesCaptured, parseErrors, files, hashes, nextID, finalized>>

\* no Save is in progress
SaveIdle == [fs |-> NoFiles, pc |-> At("", "idle"), err |-> FALSE]

\* capture.New and Capturer.Start, job.NewStore and job.NewReprintDetector
InitCapture ==
    /\ sessions = [k \in {} |-> 0]
    /\ done = FALSE
    /\ pktTask = "running"
    /\ sweepTask = "running"
    /\ stopPC = "idle"
    /\ jobsCaptured = 0
    /\ bytesCaptured = 0
    /\ parseErrors = 0
    /\ files = [id \in JobIDs |-> NoFiles]
    /\ hashes = [h \in {} |-> <<>>]
    /\ nextID = 1
    /\ now = 0
    /\ finalized = [id \in {} |-> 0]
    /\ openAtStop = {}
    /\ mu = "none"
    /\ cleanTask = "running"
    /\ held = [l \in OrderLocks |-> "none"]
    /\ script = [t \in OrderTasks |-> <<>>]
    /\ saveSt = SaveIdle
    /\ saveJob = NewJob(NoJobID, "", 0, "", "", 0)
    /\ saveEnv = [statfs |-> [err |-> TRUE, bavail |-> 0, bsize |-> 4096],
                  fault |-> At("", "none")]

\* the worker and the scan before Start: no goroutine
WorkerOff ==
    [pc |-> "off", id |-> NoJobID, status |-> ZeroStatus, attempt |-> 0, after |-> ""]

ScanOff == [pc |-> "off", todo |-> {}]

\* upload.New: an empty queue, done open, no goroutine
InitUploader ==
    /\ upPC = "new"
    /\ upDone = FALSE
    /\ queue = <<>>
    /\ queueSize = 0
    /\ wk = WorkerOff
    /\ scan = ScanOff
    /\ sidecars = [id \in JobIDs |-> NoSidecar]
    /\ handed = {}
    /\ accepted = {}

\* the state after main has constructed store, detector, uploader and capturer,
\* with the default configuration (upload disabled)
Init ==
    /\ InitCapture
    /\ upEnabled = FALSE
    /\ InitUploader

Next ==
    \/ \E p \in Packets : HandlePacket(p)
    \/ PacketLoopExit
    \/ CheckTimeouts
    \/ SweeperExit
    \/ StopBegin
    \/ StopDrain
    \/ CleanupTick
    \/ Tick

\* the capture engine: packet task, idle-timeout sweeper, Stop, reprint cleanup
Spec == Init /\ [][Next]_vars

---------------------------------------------------------------------------
(* Store.Save step by step, on the jobs the capture engine hands it *)

\* the jobs handed to Save: job.New, Append, optionally SetReprintOf and Close
StoreJobs(id) ==
    LET open(d) == JobAppend(NewJob(id, PrinterA[1], PrinterA[2], Client[1],
                                    GetTransport(PrinterA[2]), 0), d).job
        sealed(d) == JobClose(open(d), 0)
    IN  {open(d) : d \in {<<1>>, <<1, 2>>}}
        \cup {sealed(d) : d \in {<<1>>, <<1, 2>>}}
        \cup {JobSetReprintOf(sealed(d), id - 1) : d \in {x \in {<<1>>} : id > 1}}

\* Save is entered (under Store.mu) with a job whose ID no earlier Save had
StoreBegin ==
    /\ UNCHANGED <<openAtStop, uploadVars, lockVars, detectorVars, orderVars>>
    /\ saveSt.pc = At("", "idle")
    /\ nextID <= MaxJobs
    /\ \E job \in StoreJobs(nextID) : \E env \in SaveEnvs :
          /\ saveJob' = job
          /\ saveEnv' = env
          /\ saveSt' = SaveEntry(files[nextID])
    /\ nextID' = nextID + 1
    /\ UNCHANGED <<sessions, done, pktTask, sweepTask, stopPC, jobsCaptured,
                   bytesCaptured, parseErrors, files, hashes, now, finalized>>

\* Save performs its next step
StoreStep ==
    /\ UNCHANGED <<openAtStop, uploadVars, lockVars, detectorVars, orderVars>>
    /\ saveSt.pc.step \notin {"idle", "returned"}
    /\ saveSt' = SaveStep(saveSt, saveJob, saveEnv)
    /\ files' = [files EXCEPT ![saveJob.JobID] = saveSt'.fs]
    /\ UNCHANGED <<sessions, done, pktTask, sweepTask, stopPC, jobsCaptured,
                   bytesCaptured, parseErrors, hashes, nextID, now, finalized,
                   saveJob, saveEnv>>

\* Save has returned to its caller
StoreReturn ==
    /\ UNCHANGED <<openAtStop, uploadVars, lockVars, detectorVars, orderVars>>
    /\ saveSt.pc = At("", "returned")
    /\ saveSt' = SaveIdle
    /\ UNCHANGED <<sessions, done, pktTask, sweepTask, stopPC, jobsCaptured,
                   bytesCaptured, parseErrors, files, hashes, nextID, now, finalized,
                   saveJob, saveEnv>>

NextStore ==
    \/ StoreBegin
    \/ StoreStep
    \/ StoreReturn

SpecStore == Init /\ [][NextStore]_vars

---------------------------------------------------------------------------
(* Capturer.mu: the capture tasks lock by lock, Store.Save step by step *)

\* the tasks that take Capturer.mu
LockTasks == {"packet", "sweeper", "stop"}

\* the session keys of the FIN and RST packets of the printer ports
ClosingKeys ==
    {Classify(p).key : p \in {q \in Packets : Classify(q).printer /\ (q.FIN \/ q.RST)}}

\* the sessions the holder of the lock has yet to finalize: handlePacket the
\* session of the FIN or RST in hand, checkTimeouts the idle ones, Stop all
ToFinalize(task) ==
    CASE task = "packet" -> ClosingKeys \cap DOMAIN sessions
      [] task = "sweeper" -> Expired(sessions, now)
      [] task = "stop" -> DrainKeys(sessions)
      [] OTHER -> {}

\* the lock after one finalizeSession and delete: handlePacket returns, and its
\* deferred Unlock runs; the loops of checkTimeouts and Stop go on
AfterFinalize(task) == IF task = "packet" THEN "none" ELSE task

\* c.mu.Lock() in handlePacket, checkTimeouts and Stop (after wg.Wait)
MuLock(task) ==
    /\ mu = "none"
    /\ CASE task = "packet" -> pktTask = "running"
         [] task = "sweeper" -> sweepTask = "running"
         [] task = "stop" ->
                stopPC = "waiting" /\ pktTask = "exited" /\ sweepTask = "exited"
    /\ mu' = task
    /\ UNCHANGED <<captureVars, storeVars, uploadVars, detectorVars, orderVars>>

\* handlePacket under the lock for a packet that closes no session, up to the
\* deferred c.mu.Unlock()
PacketLocked(p) ==
    /\ mu = "packet"
    /\ saveSt.pc = At("", "idle")
    /\ ~(Classify(p).printer /\ (p.FIN \/ p.RST) /\ Classify(p).key \in DOMAIN sessions)
    /\ HandlePacketLocked(p)
    /\ mu' = "none"

\* the holder of the lock calls finalizeSession for a session: Close, the empty
\* check, the reprint Check and Record, and the call of Store.Save
LockFinalizeBegin ==
    /\ mu \in LockTasks
    /\ saveSt.pc = At("", "idle")
    /\ \E key \in ToFinalize(mu) :
          LET sess == sessions[key]
              closed == JobClose(sess.job, now)
              originalID == ReprintCheck(hashes, JobGetHash(closed), sess.dstIP, now)
              job == IF originalID # NoJobID THEN JobSetReprintOf(closed, originalID)
                     ELSE closed
          IN  IF SkipEmpty(closed) THEN
                  /\ finalized' = Outcome(World, closed, "empty", now)
                  /\ sessions' = Without(sessions, key)
                  /\ mu' = AfterFinalize(mu)
                  /\ UNCHANGED <<hashes, storeVars>>
              ELSE
                  /\ hashes' = ReprintRecord(hashes, JobGetHash(job), sess.dstIP,
                                             closed.JobID, now)
                  /\ saveJob' = job
                  /\ \E env \in CaptureSaveEnvs : saveEnv' = env
                  /\ saveSt' = SaveEntry(files[closed.JobID])
                  /\ UNCHANGED <<sessions, finalized, mu>>
    /\ UNCHANGED <<done, pktTask, sweepTask, stopPC, jobsCaptured, bytesCaptured,
                   parseErrors, files, nextID, now, openAtStop>>
    /\ UNCHANGED <<uploadVars, detectorVars, orderVars>>

\* Store.Save has returned to finalizeSession: the counters, then the delete of
\* the session by the caller
LockFinalizeReturn ==
    /\ mu \in LockTasks
    /\ saveSt.pc = At("", "returned")
    /\ LET key == CHOOSE k \in DOMAIN sessions : sessions[k].job.JobID = saveJob.JobID
       IN  sessions' = Without(sessions, key)
    /\ finalized' = Outcome(World, saveJob, IF saveSt.err THEN "failed" ELSE "saved", now)
    /\ parseErrors' = IF saveSt.err THEN parseErrors + 1 ELSE parseErrors
    /\ jobsCaptured' = IF saveSt.err THEN jobsCaptured ELSE jobsCaptured + 1
    /\ saveSt' = SaveIdle
    /\ mu' = AfterFinalize(mu)
    /\ UNCHANGED <<done, pktTask, sweepTask, stopPC, bytesCaptured, files, hashes,
                   nextID, now, openAtStop, saveJob, saveEnv>>
    /\ UNCHANGED <<uploadVars, detectorVars, orderVars>>

\* c.mu.Unlock() at the end of checkTimeouts and of Stop, which then returns
MuUnlock ==
    /\ mu \in {"sweeper", "stop"}
    /\ saveSt.pc = At("", "idle")
    /\ ToFinalize(mu) = {}
    /\ mu' = "none"
    /\ stopPC' = IF mu = "stop" THEN "stopped" ELSE stopPC
    /\ UNCHANGED <<sessions, done, pktTask, sweepTask, jobsCaptured, bytesCaptured,
                   parseErrors, files, hashes, nextID, now, finalized, openAtStop>>
    /\ UNCHANGED <<storeVars, uploadVars, detectorVars, orderVars>>

\* processPackets sees done between two packets
LockPacketLoopExit == mu # "packet" /\ PacketLoopExit

\* sessionTimeoutLoop sees done between two ticks
LockSweeperExit == mu # "sweeper" /\ SweeperExit

\* time passes between two critical sections (checkTimeouts reads the clock once)
LockTick == mu = "none" /\ Tick

NextLock ==
    \/ \E task \in LockTasks : MuLock(task)
    \/ \E p \in Packets : PacketLocked(p)
    \/ LockFinalizeBegin
    \/ StoreStep
    \/ LockFinalizeReturn
    \/ MuUnlock
    \/ LockPacketLoopExit
    \/ LockSweeperExit
    \/ StopBegin
    \/ LockTick

\* the capture tasks around Capturer.mu
SpecLock == Init /\ [][NextLock]_vars

---------------------------------------------------------------------------
(* internal/upload: Uploader, with main and the capture engine around it *)

\* an Enqueue that sends whatever the queue holds
EnqueueAlways(q, id) == [queue |-> Append(q, id), sent |-> TRUE]

\* Uploader.Enqueue with upload enabled, the select: the queue after the call
\* and whether the path was sent (and queueSize.Add(1) is still to come)
EnqueueSend(q, id) ==
    IF Len(q) < QueueCap THEN [queue |-> Append(q, id), sent |-> TRUE]
    ELSE [queue |-> q, sent |-> FALSE]

\* main: uploader.Start()
UploaderStart ==
    /\ UNCHANGED accepted
    /\ upPC = "new"
    /\ upPC' = "started"
    /\ IF upEnabled
       THEN /\ wk' = [wk EXCEPT !.pc = "idle"]
            /\ scan' = [scan EXCEPT !.pc = "list"]
       ELSE UNCHANGED <<wk, scan>>
    /\ UNCHANGED <<upEnabled, upDone, queue, queueSize, sidecars, handed>>
    /\ UNCHANGED <<captureVars, storeVars, lockVars, detectorVars, orderVars>>

\* the capture engine, between capturer.Start() and capturer.Stop(): a session
\* (SYN, one data segment) is finalized by finalizeSession
CaptureJob ==
    /\ upPC = "started"
    /\ nextID <= MaxJobs
    /\ LET syn == Packet(Client, PrinterA, {"SYN"}, 100, <<>>)
           data == Packet(Client, PrinterA, {}, 100, <<1>>)
           r == AcceptSegment(NewSession(Classify(syn), nextID, now), data, now)
       IN  /\ \E env \in CaptureSaveEnvs :
                  SetWorld(FinalizeSession(World, r.sess, env, now))
           /\ bytesCaptured' = bytesCaptured + r.added
    /\ nextID' = nextID + 1
    /\ UNCHANGED <<sessions, done, pktTask, sweepTask, stopPC, now, openAtStop>>
    /\ UNCHANGED <<storeVars, uploadVars, lockVars, detectorVars, orderVars>>

\* scanPending: filepath.Walk reads the names in the job directory
ScanList ==
    /\ UNCHANGED accepted
    /\ scan.pc = "list"
    /\ scan' = [scan EXCEPT !.pc = "visit",
                            !.todo = {id \in JobIDs : files[id].json.exists}]
    /\ UNCHANGED <<upEnabled, upPC, upDone, queue, queueSize, wk, sidecars,
                   handed>>
    /\ UNCHANGED <<captureVars, storeVars, lockVars, detectorVars, orderVars>>

\* scanPending: the walk function on <id>.json
ScanVisit(id) ==
    /\ UNCHANGED accepted
    /\ scan.pc = "visit"
    /\ id \in scan.todo
    /\ IF upDone THEN
           /\ scan' = [scan EXCEPT !.pc = "exited", !.todo = {}]
           /\ UNCHANGED <<queue, handed>>
       ELSE IF NeedsUpload(LoadOrCreateStatus(sidecars[id], id)) THEN
           LET r == EnqueueSend(queue, id) IN
           /\ queue' = r.queue
           /\ handed' = handed \cup {id}
           /\ scan' = [scan EXCEPT !.pc = IF r.sent THEN "add" ELSE "visit",
                                   !.todo = @ \ {id}]
       ELSE
           /\ scan' = [scan EXCEPT !.todo = @ \ {id}]
           /\ UNCHANGED <<queue, handed>>
    /\ UNCHANGED <<upEnabled, upPC, upDone, queueSize, wk, sidecars>>
    /\ UNCHANGED <<captureVars, storeVars, lockVars, detectorVars, orderVars>>

\* Enqueue called by scanPending: queueSize.Add(1) after the send
ScanAdd ==
    /\ UNCHANGED accepted
    /\ scan.pc = "add"
    /\ queueSize' = queueSize + 1
    /\ scan' = [scan EXCEPT !.pc = "visit"]
    /\ UNCHANGED <<upEnabled, upPC, upDone, queue, wk, sidecars, handed>>
    /\ UNCHANGED <<captureVars, storeVars, lockVars, detectorVars, orderVars>>

\* scanPending: the walk is over
ScanExit ==
    /\ UNCHANGED accepted
    /\ scan.pc = "visit"
    /\ scan.todo = {}
    /\ scan' = [scan EXCEPT !.pc = "exited"]
    /\ UNCHANGED <<upEnabled, upPC, upDone, queue, queueSize, wk, sidecars,
                   handed>>
    /\ UNCHANGED <<captureVars, storeVars, lockVars, detectorVars, orderVars>>

\* worker: case jobPath := <-u.queue
WorkerRecv ==
    /\ UNCHANGED accepted
    /\ wk.pc = "idle"
    /\ queue # <<>>
    /\ wk' = [wk EXCEPT !.pc = "dec", !.id = Head(queue)]
    /\ queue' = Tail(queue)
    /\ UNCHANGED <<upEnabled, upPC, upDone, queueSize, scan, sidecars, handed>>
    /\ UNCHANGED <<captureVars, storeVars, lockVars, detectorVars, orderVars>>

\* worker: case <-u.done
WorkerExit ==
    /\ UNCHANGED accepted
    /\ wk.pc = "idle"
    /\ upDone
    /\ wk' = [WorkerOff EXCEPT !.pc = "exited"]
    /\ UNCHANGED <<upEnabled, upPC, upDone, queue, queueSize, scan, sidecars,
                   handed>>
    /\ UNCHANGED <<captureVars, storeVars, lockVars, detectorVars, orderVars>>

\* worker: u.queueSize.Add(-1)
WorkerDec ==
    /\ UNCHANGED accepted
    /\ wk.pc = "dec"
    /\ queueSize' = queueSize - 1
    /\ wk' = [wk EXCEPT !.pc = "load"]
    /\ UNCHANGED <<upEnabled, upPC, upDone, queue, scan, sidecars, handed>>
    /\ UNCHANGED <<captureVars, storeVars, lockVars, detectorVars, orderVars>>

\* processJob up to the retry loop: the sidecar is loaded, an uploaded job is
\* skipped, <id>.json and <id>.bin are read
WorkerLoad ==
    /\ UNCHANGED accepted
    /\ wk.pc = "load"
    /\ LET status == LoadOrCreateStatus(sidecars[wk.id], wk.id) IN
       IF \/ AlreadyUploaded(status)
          \/ ~files[wk.id].json.exists
          \/ ~files[wk.id].bin.exists
       THEN wk' = [WorkerOff EXCEPT !.pc = "idle"]
       ELSE wk' = [wk EXCEPT !.pc = "loop", !.status = status, !.attempt = 1]
    /\ UNCHANGED <<upEnabled, upPC, upDone, queue, queueSize, scan, sidecars,
                   handed>>
    /\ UNCHANGED <<captureVars, storeVars, lockVars, detectorVars, orderVars>>

\* processJob, the head of the retry loop: the request of this attempt is sent,
\* or, the attempts used up, the status becomes "failed" and is saved
WorkerLoop ==
    /\ UNCHANGED accepted
    /\ wk.pc = "loop"
    /\ IF wk.attempt <= MaxRetries
       THEN wk' = [wk EXCEPT !.pc = "http", !.status.Attempts = wk.attempt]
       ELSE wk' = [wk EXCEPT !.pc = "trunc", !.status.Status = "failed",
                             !.after = "return"]
    /\ UNCHANGED <<upEnabled, upPC, upDone, queue, queueSize, scan, sidecars,
                   handed>>
    /\ UNCHANGED <<captureVars, storeVars, lockVars, detectorVars, orderVars>>

\* Uploader.upload returns in processJob with the answer to the request it sent
\* for the job
UploadReturns(resp) ==
    /\ wk.pc = "http"
    /\ IF UploadOk(resp)
       THEN wk' = [wk EXCEPT !.pc = "trunc", !.status.Status = "uploaded",
                             !.after = "return"]
       ELSE wk' = [wk EXCEPT !.pc = "trunc", !.status.LastError = "error",
                             !.after = "retry"]
    /\ accepted' = IF Answered2xx(resp) THEN accepted \cup {wk.id} ELSE accepted
    /\ UNCHANGED <<upEnabled, upPC, upDone, queue, queueSize, scan, sidecars,
                   handed>>
    /\ UNCHANGED <<captureVars, storeVars, lockVars, detectorVars, orderVars>>

\* saveStatus, os.WriteFile opens the sidecar with O_CREATE|O_TRUNC
SaveStatusOpen ==
    /\ UNCHANGED accepted
    /\ wk.pc = "trunc"
    /\ sidecars' = [sidecars EXCEPT ![wk.id] = TruncatedSidecar]
    /\ wk' = [wk EXCEPT !.pc = "write"]
    /\ UNCHANGED <<upEnabled, upPC, upDone, queue, queueSize, scan, handed>>
    /\ UNCHANGED <<captureVars, storeVars, lockVars, detectorVars, orderVars>>

\* saveStatus, os.WriteFile writes the status; processJob then returns, waits
\* for the backoff or, after the last attempt, leaves the loop
SaveStatusWrite ==
    /\ UNCHANGED accepted
    /\ wk.pc = "write"
    /\ sidecars' = [sidecars EXCEPT ![wk.id] = SidecarOf(wk.status)]
    /\ wk' = IF wk.after = "return" THEN [WorkerOff EXCEPT !.pc = "idle"]
             ELSE IF wk.attempt < MaxRetries THEN [wk EXCEPT !.pc = "backoff", !.after = ""]
             ELSE [wk EXCEPT !.pc = "loop", !.attempt = wk.attempt + 1, !.after = ""]
    /\ UNCHANGED <<upEnabled, upPC, upDone, queue, queueSize, scan, handed>>
    /\ UNCHANGED <<captureVars, storeVars, lockVars, detectorVars, orderVars>>

\* processJob, the backoff select: case <-time.After(backoff)
BackoffElapsed ==
    /\ UNCHANGED accepted
    /\ wk.pc = "backoff"
    /\ wk' = [wk EXCEPT !.pc = "loop", !.attempt = wk.attempt + 1]
    /\ UNCHANGED <<upEnabled, upPC, upDone, queue, queueSize, scan, sidecars,
                   handed>>
    /\ UNCHANGED <<captureVars, storeVars, lockVars, detectorVars, orderVars>>

\* processJob, the backoff select: case <-u.done
BackoffDone ==
    /\ UNCHANGED accepted
    /\ wk.pc = "backoff"
    /\ upDone
    /\ wk' = [WorkerOff EXCEPT !.pc = "idle"]
    /\ UNCHANGED <<upEnabled, upPC, upDone, queue, queueSize, scan, sidecars,
                   handed>>
    /\ UNCHANGED <<captureVars, storeVars, lockVars, detectorVars, orderVars>>

\* main: uploader.Stop() closes done
UploaderStop ==
    /\ UNCHANGED accepted
    /\ upPC = "started"
    /\ upPC' = "waiting"
    /\ upDone' = TRUE
    /\ UNCHANGED <<upEnabled, queue, queueSize, wk, scan, sidecars, handed>>
    /\ UNCHANGED <<captureVars, storeVars, lockVars, detectorVars, orderVars>>

\* main: uploader.Stop() returns from wg.Wait
UploaderStopped ==
    /\ UNCHANGED accepted
    /\ upPC = "waiting"
    /\ wk.pc \in {"off", "exited"}
    /\ scan.pc \in {"off", "exited"}
    /\ upPC' = "stopped"
    /\ UNCHANGED <<upEnabled, upDone, queue, queueSize, wk, scan, sidecars,
                   handed>>
    /\ UNCHANGED <<captureVars, storeVars, lockVars, detectorVars, orderVars>>

\* the process ends (main returns, or it is killed at any point) and is started
\* again: the files stay, the memory is that of a new process
ProcessRestart ==
    /\ UNCHANGED accepted
    /\ upPC # "new"
    /\ upPC' = "new"
    /\ upDone' = FALSE
    /\ queue' = <<>>
    /\ queueSize' = 0
    /\ wk' = WorkerOff
    /\ scan' = ScanOff
    /\ handed' = {}
    /\ sidecars' = sidecars
    /\ hashes' = [h \in {} |-> <<>>]
    /\ jobsCaptured' = 0
    /\ bytesCaptured' = 0
    /\ parseErrors' = 0
    /\ finalized' = [id \in {} |-> 0]
    /\ UNCHANGED <<upEnabled, sessions, done, pktTask, sweepTask, stopPC, files,
                   nextID, now, openAtStop>>
    /\ UNCHANGED <<storeVars, lockVars, detectorVars, orderVars>>

\* Enqueue called from outside the package, the send and queueSize.Add(1) in one
\* step
CallerEnqueue(id) ==
    /\ UNCHANGED accepted
    /\ upPC # "new"
    /\ IF upEnabled THEN
           LET r == EnqueueSend(queue, id) IN
           /\ queue' = r.queue
           /\ queueSize' = IF r.sent THEN queueSize + 1 ELSE queueSize
           /\ handed' = handed \cup {id}
       ELSE UNCHANGED <<queue, queueSize, handed>>
    /\ UNCHANGED <<upEnabled, upPC, upDone, wk, scan, sidecars>>
    /\ UNCHANGED <<captureVars, storeVars, lockVars, detectorVars, orderVars>>

\* the state after main has constructed its parts, upload enabled or not
InitUpload ==
    /\ InitCapture
    /\ upEnabled \in BOOLEAN
    /\ InitUploader

\* the steps of the program around the uploader
NextUpload ==
    \/ UploaderStart
    \/ CaptureJob
    \/ ScanList
    \/ \E id \in JobIDs : ScanVisit(id)
    \/ ScanAdd
    \/ ScanExit
    \/ WorkerRecv
    \/ WorkerExit
    \/ WorkerDec
    \/ WorkerLoad
    \/ WorkerLoop
    \/ \E resp \in Responses : UploadReturns(resp)
    \/ SaveStatusOpen
    \/ SaveStatusWrite
    \/ BackoffElapsed
    \/ BackoffDone
    \/ UploaderStop
    \/ UploaderStopped
    \/ ProcessRestart

\* tapd as main wires it: jobs are saved by the capture engine, paths reach the
\* queue by scanPending alone
SpecUpload == InitUpload /\ [][NextUpload]_vars

\* the upload package under any use of its exported Enqueue
NextUploader ==
    \/ NextUpload
    \/ \E id \in JobIDs : CallerEnqueue(id)

SpecUploader == InitUpload /\ [][NextUploader]_vars

---------------------------------------------------------------------------
(* the packet task and the idle-timeout sweeper while the engine runs *)

NextSweep ==
    \/ \E p \in Packets : HandlePacket(p)
    \/ CheckTimeouts
    \/ Tick

\* the capture engine between Start and Stop: packets, sweeper ticks, time
SpecSweep == Init /\ [][NextSweep]_vars

---------------------------------------------------------------------------
(* the packet task on flows of several client source ports *)

\* the TCP source ports of the client: an ephemeral port, and 9100
ClientPorts == {4000, 9100}

\* the packets of the flows between the client and the first printer: toward the
\* printer a SYN, two data segments and a FIN; from the printer a segment without
\* flags, a SYN (the SYN-ACK) and a FIN
FlowPackets ==
    UNION {
        {Packet(<<Client[1], cp>>, PrinterA, {"SYN"}, 100, <<>>),
         Packet(<<Client[1], cp>>, PrinterA, {}, 100, <<1>>),
         Packet(<<Client[1], cp>>, PrinterA, {}, 200, <<2>>),
         Packet(<<Client[1], cp>>, PrinterA, {"FIN"}, 100, <<>>),
         Packet(PrinterA, <<Client[1], cp>>, {}, 100, <<>>),
         Packet(PrinterA, <<Client[1], cp>>, {"SYN"}, 100, <<>>),
         Packet(PrinterA, <<Client[1], cp>>, {"FIN"}, 100, <<>>)} : cp \in ClientPorts}

NextFlows == \E p \in FlowPackets : HandlePacket(p)

SpecFlows == Init /\ [][NextFlows]_vars

---------------------------------------------------------------------------
(* cmd/tapd: main from start to the end of the graceful shutdown *)

\* the capture engine finalizes a job while its packet task runs
MainCaptureJob == pktTask = "running" /\ CaptureJob

\* main: the signal has arrived, capturer.Stop() is called
MainCapturerStop == upPC = "started" /\ StopBegin

\* main: uploader.Stop() is called after capturer.Stop() has returned
MainUploaderStop == stopPC = "stopped" /\ UploaderStop

NextShutdown ==
    \/ UploaderStart
    \/ MainCaptureJob
    \/ ScanList
    \/ \E id \in JobIDs : ScanVisit(id)
    \/ ScanAdd
    \/ ScanExit
    \/ WorkerRecv
    \/ WorkerExit
    \/ WorkerDec
    \/ WorkerLoad
    \/ WorkerLoop
    \/ \E resp \in Responses : UploadReturns(resp)
    \/ SaveStatusOpen
    \/ SaveStatusWrite
    \/ BackoffElapsed
    \/ BackoffDone
    \/ CleanupTick
    \/ Tick
    \/ MainCapturerStop
    \/ PacketLoopExit
    \/ SweeperExit
    \/ StopDrain
    \/ MainUploaderStop
    \/ UploaderStopped

\* one run of tapd, from main's construction of its parts to the return of
\* uploader.Stop()
SpecShutdown == InitUpload /\ [][NextShutdown]_vars

---------------------------------------------------------------------------
(* Properties of the capture engine and the store *)

\* <id>.bin and <id>.json of the job are both in place
Persisted(id) == files[id].bin.exists /\ files[id].json.exists

\* none of the four paths of the job exists
NothingOnDisk(id) ==
    /\ ~files[id].bin.exists
    /\ ~files[id].json.exists
    /\ ~files[id].binTmp.exists
    /\ ~files[id].jsonTmp.exists

\* the job IDs the reprint detector holds
DetectorIDs == {hashes[h][i].jobID : <<h, i>> \in
                    UNION {{h} \X DOMAIN hashes[h] : h \in DOMAIN hashes}}

\* the finalized jobs with the given outcome
JobsWith(outcome) == {id \in DOMAIN finalized : finalized[id].outcome = outcome}

\* C1: the reprint detector holds the (hash, printer IP, job ID) of a job only
\* after Store.Save succeeded for it: every job ID in the detector is the ID of
\* a job whose two files are in place.
C1_RecordedOnlyAfterSave == \A id \in DetectorIDs : Persisted(id)

\* C2: for every persisted job, <id>.bin holds exactly the payload the job had
\* when it was closed, and <id>.json gives byte_len as the length of that content
\* and sha256 as the SHA-256 of that content.
C2_PersistedMatchesPayload ==
    \A id \in JobIDs :
        Persisted(id) =>
            /\ id \in DOMAIN finalized
            /\ files[id].bin.content = finalized[id].job.Data
            /\ files[id].json.content.byte_len = Len(files[id].bin.content)
            /\ files[id].json.content.sha256 = Sha256Hex(files[id].bin.content)

\* a job assembled from two segments is persisted
C2_Witness ==
    \E id \in JobIDs : Persisted(id) /\ Len(files[id].bin.content) = 2

\* the non-empty jobs finalized before job id, for the same printer IP, with the
\* same hash and not longer than the reprint window before it
EarlierSame(id) ==
    {k \in DOMAIN finalized :
        /\ finalized[k].ord < finalized[id].ord
        /\ finalized[k].outcome # "empty"
        /\ finalized[k].job.SHA256 = finalized[id].job.SHA256
        /\ finalized[k].job.PrinterIP = finalized[id].job.PrinterIP
        /\ finalized[id].job.CaptureEndTS - finalized[k].job.CaptureEndTS <= Window}

\* C3: a saved job whose payload equals that of a job finalized for the same
\* printer IP within the reprint window before it carries reprint_of_job_id = the
\* ID of the first such job and the tag "reprint" exactly once; a saved job with
\* no such predecessor (in particular when the equal payload went to another
\* printer IP) carries neither.
C3_ReprintMarked ==
    \A id \in JobsWith("saved") :
        LET meta == files[id].json.content
            prior == EarlierSame(id)
        IN  IF prior = {} THEN
                /\ "reprint_of_job_id" \notin DOMAIN meta
                /\ "tags" \notin DOMAIN meta
            ELSE
                /\ "reprint_of_job_id" \in DOMAIN meta
                /\ "tags" \in DOMAIN meta
                /\ meta.reprint_of_job_id \in prior
                /\ \A k \in prior : finalized[meta.reprint_of_job_id].ord <= finalized[k].ord
                /\ Cardinality({i \in DOMAIN meta.tags : meta.tags[i] = "reprint"}) = 1

\* a second job with the payload of the first was saved for the same printer
C3_Witness ==
    \E id \in JobsWith("saved") :
        /\ EarlierSame(id) # {}
        /\ files[id].json.content.reprint_of_job_id \in EarlierSame(id)

\* C4: finalizing a session with no payload writes no file, records nothing in
\* the reprint detector and counts neither in jobs_captured nor in parse_errors;
\* no persisted job has byte_len 0.
C4_EmptyDiscarded ==
    /\ \A id \in JobsWith("empty") : NothingOnDisk(id) /\ id \notin DetectorIDs
    /\ jobsCaptured = Cardinality(JobsWith("saved"))
    /\ parseErrors = Cardinality(JobsWith("failed"))
    /\ \A id \in JobIDs : Persisted(id) => files[id].json.content.byte_len # 0

\* a session without payload was finalized
C4_Witness == JobsWith("empty") # {}

\* the packets that handlePacket takes as data segments when their session
\* exists: toward a printer port, neither FIN nor RST, with payload
DataPackets ==
    {p \in Packets :
        /\ Classify(p).printer
        /\ Classify(p).toward
        /\ ~(p.FIN \/ p.RST)
        /\ p.payload # <<>>}

\* the data segments of the open sessions
OpenData == {p \in DataPackets : Classify(p).key \in DOMAIN sessions}

\* C5: handling a data segment whose sequence number the session has already
\* accepted changes neither the job's payload nor bytes_captured; handling one
\* whose sequence number is new appends its payload and adds len(payload) to
\* bytes_captured, once; bytes_captured changes in no other way.
C5_DuplicateIgnored ==
    [][/\ \A p \in OpenData :
              HandlePacket(p) =>
                  LET k == Classify(p).key
                      old == sessions[k]
                  IN  IF p.seq \in old.seqTracker THEN
                          /\ sessions'[k].job.Data = old.job.Data
                          /\ sessions'[k].seqTracker = old.seqTracker
                          /\ bytesCaptured' = bytesCaptured
                      ELSE
                          /\ sessions'[k].job.Data = old.job.Data \o p.payload
                          /\ sessions'[k].seqTracker = old.seqTracker \cup {p.seq}
                          /\ bytesCaptured' = bytesCaptured + Len(p.payload)
       /\ bytesCaptured' # bytesCaptured =>
              \E p \in OpenData :
                  /\ p.seq \notin sessions[Classify(p).key].seqTracker
                  /\ HandlePacket(p)
      ]_vars

\* the packet loop runs and a session has accepted a segment, so that each
\* retransmission of that segment is handled as a duplicate
C5_Witness ==
    /\ pktTask = "running"
    /\ \E p \in OpenData :
           /\ p.seq \in sessions[Classify(p).key].seqTracker
           /\ sessions[Classify(p).key].lastSeen > sessions[Classify(p).key].job.CaptureStartTS

---------------------------------------------------------------------------
(* Properties of the uploader *)

\* the sidecar of the job holds a status with the given Status
SidecarSays(id, status) == sidecars[id].valid /\ sidecars[id].st.Status = status

\* how often the path of the job is in the queue
Queued(q, id) == Cardinality({i \in DOMAIN q : q[i] = id})

\* C8: with upload enabled, every job that Store.Save has persisted since the
\* process started has been handed to Uploader.Enqueue since the process started.
C8_SavedJobsEnqueued ==
    upEnabled => \A id \in JobsWith("saved") : id \in handed

\* C9: while the sidecar of a job says "failed", no step puts the job's path on
\* the queue and no step changes the sidecar.
C9_FailedNotRetried ==
    [][\A id \in JobIDs :
           SidecarSays(id, "failed") =>
               /\ Queued(queue', id) <= Queued(queue, id)
               /\ sidecars'[id] = sidecars[id]
      ]_vars

\* C10: once the sidecar of a job says "uploaded" no step changes it and no step
\* sends a request for the job, whoever enqueues the job and however often the
\* process is restarted; processJob on such a job returns after loading the
\* status.
C10_UploadedIsFinal ==
    [][\A id \in JobIDs :
           SidecarSays(id, "uploaded") =>
               /\ sidecars'[id] = sidecars[id]
               /\ ~(wk'.pc = "http" /\ wk'.id = id)
               /\ (wk.pc = "load" /\ wk.id = id /\ wk' # wk) =>
                      wk'.pc \in {"idle", "off"}
      ]_vars

\* processJob has been entered for a job whose sidecar says "uploaded"
C10_Witness == wk.pc = "load" /\ SidecarSays(wk.id, "uploaded")

\* C11: the sidecar of a job says "uploaded" only if the webhook has answered a
\* request for that job with a 2xx status; an answer with another status, a
\* failed or a timed out request never leads to "uploaded".
C11_UploadedOnly2xx ==
    \A id \in JobIDs : SidecarSays(id, "uploaded") => id \in accepted

\* a sidecar says "uploaded" after an earlier attempt for the job had failed
C11_Witness ==
    \E id \in JobIDs :
        /\ SidecarSays(id, "uploaded")
        /\ sidecars[id].st.Attempts > 1
        /\ sidecars[id].st.LastError # ""

\* C12: within one processing of a job the worker sends at most max_retries
\* requests; every status it writes to the sidecar carries the number of the
\* attempt just made, says "pending" after a failed attempt and "failed" only
\* when max_retries attempts have failed.
C12_AttemptsAndStatus ==
    [][/\ (wk.pc # "http" /\ wk'.pc = "http") => wk.attempt \in 1..MaxRetries
       /\ \A id \in JobIDs :
              (sidecars'[id] # sidecars[id] /\ sidecars'[id].valid) =>
                  LET st == sidecars'[id].st IN
                  /\ wk.id = id
                  /\ st.Attempts = (IF wk.attempt <= MaxRetries THEN wk.attempt
                                    ELSE MaxRetries)
                  /\ st.Status \in {"pending", "uploaded", "failed"}
                  /\ (st.Status = "failed") <=> (wk.attempt > MaxRetries)
      ]_vars

\* C13: the startup scan puts on the queue the base path of every job it visits
\* whose sidecar is absent or does not say "uploaded", however many such jobs
\* there are (whence the worker processes it in that run).
C13_ScanEnqueuesAll ==
    [][\A id \in JobIDs :
           (/\ ~upDone
            /\ NeedsUpload(LoadOrCreateStatus(sidecars[id], id))
            /\ ScanVisit(id)) => Queued(queue', id) = Queued(queue, id) + 1
      ]_vars

\* C14: the queue never holds more paths than its capacity; Enqueue can always
\* be taken (it never waits), and when the queue is full it leaves the queue
\* and the queue-depth counter as they are.
C14_EnqueueNeverBlocks ==
    [][/\ Len(queue') <= QueueCap
       /\ \A id \in JobIDs :
              /\ upPC # "new" => ENABLED CallerEnqueue(id)
              /\ (Len(queue) = QueueCap /\ CallerEnqueue(id)) =>
                     queue' = queue /\ queueSize' = queueSize
              /\ (Len(queue) = QueueCap /\ ScanVisit(id)) =>
                     queue' = queue /\ queueSize' = queueSize /\ scan'.pc # "add"
      ]_vars

\* Enqueue has been called and the queue is full: the next Enqueue drops
C14_Witness ==
    /\ upEnabled
    /\ upPC = "started"
    /\ Len(queue) = QueueCap
    /\ handed # {}

\* the available space a Statfs result reports, in whole megabytes
AvailMB(statfs) == (statfs.bavail * statfs.bsize) \div 1048576

\* C15: a Save that finds less than min_free_mb whole megabytes available
\* returns an error and writes no file; a Save that finds exactly min_free_mb or
\* more is not refused: with no write failing, it persists the job.
C15_MinFreeBoundary ==
    (saveSt.pc = At("", "returned") /\ JobIsClosed(saveJob) /\ ~saveEnv.statfs.err) =>
        /\ AvailMB(saveEnv.statfs) < MinFreeMB =>
               saveSt.err /\ NothingOnDisk(saveJob.JobID)
        /\ (AvailMB(saveEnv.statfs) >= MinFreeMB /\ saveEnv.fault = At("", "none")) =>
               ~saveSt.err /\ Persisted(saveJob.JobID)

\* Save has persisted a job with exactly min_free_mb megabytes available
C15_Witness ==
    /\ saveSt.pc = At("", "returned")
    /\ ~saveEnv.statfs.err
    /\ AvailMB(saveEnv.statfs) = MinFreeMB
    /\ ~saveSt.err
    /\ Persisted(saveJob.JobID)

\* the jobs a step finalizes with the given outcome
NewlyWith(outcome) ==
    {id \in DOMAIN finalized' : finalized'[id].outcome = outcome} \ JobsWith(outcome)

\* C16: a step in which Store.Save fails for a job adds exactly one to
\* parse_errors for each such job and nothing to jobs_captured for it, removes
\* the job's session and ends no capture task: while done is open both tasks
\* run.
C16_SaveFailureContained ==
    [][/\ NewlyWith("failed") # {} =>
              /\ parseErrors' = parseErrors + Cardinality(NewlyWith("failed"))
              /\ jobsCaptured' = jobsCaptured + Cardinality(NewlyWith("saved"))
              /\ \A k \in DOMAIN sessions' :
                     sessions'[k].job.JobID \notin NewlyWith("failed")
              /\ pktTask' = pktTask
              /\ sweepTask' = sweepTask
       /\ ~done' => pktTask' = "running" /\ sweepTask' = "running"
      ]_vars

\* after a job whose Save failed, a later session was persisted
C16_Witness ==
    \E a \in JobsWith("failed") : \E b \in JobsWith("saved") :
        /\ finalized[a].ord < finalized[b].ord
        /\ Persisted(b)
        /\ parseErrors = 1
        /\ jobsCaptured = 1

\* the flow of a packet with a printer port at either end, written client first
FlowOf(p) ==
    IF IsPrinterPort(p.dst[2]) THEN <<p.src[1], p.src[2], p.dst[1], p.dst[2]>>
    ELSE <<p.dst[1], p.dst[2], p.src[1], p.src[2]>>

\* the packets toward a printer port that carry none of SYN, FIN, RST
LatePackets ==
    {p \in Packets : IsPrinterPort(p.dst[2]) /\ ~p.SYN /\ ~p.FIN /\ ~p.RST}

\* the SYN packets toward a printer port
SynPackets ==
    {p \in Packets : IsPrinterPort(p.dst[2]) /\ p.SYN /\ ~p.FIN /\ ~p.RST}

NextPackets == \E p \in Packets : HandlePacket(p)

SpecPackets == Init /\ [][NextPackets]_vars

\* the FIN and RST packets with a printer port at either end
FinPackets ==
    {p \in Packets :
        (p.FIN \/ p.RST) /\ (IsPrinterPort(p.dst[2]) \/ IsPrinterPort(p.src[2]))}

\* the effect of closing the session of the flow of p: the session is removed,
\* its job finalized, the other sessions stay
SessionClosed(p) ==
    /\ DOMAIN sessions' = (DOMAIN sessions) \ {FlowOf(p)}
    /\ sessions[FlowOf(p)].job.JobID \in DOMAIN finalized'
    /\ \A k \in DOMAIN sessions' : sessions'[k] = sessions[k]

\* C18: while the packet task runs, a FIN or RST of either direction for a flow
\* with an open session can be handled so that the job is finalized and the
\* session removed, and every handling of it does so; handling a FIN or RST for
\* a flow without a session changes nothing.
C18_FinRstCloses ==
    /\ [](pktTask = "running" =>
              \A p \in FinPackets :
                  FlowOf(p) \in DOMAIN sessions =>
                      ENABLED (HandlePacket(p) /\ SessionClosed(p)))
    /\ [][\A p \in FinPackets :
              HandlePacket(p) =>
                  IF FlowOf(p) \in DOMAIN sessions
                  THEN SessionClosed(p)
                  ELSE UNCHANGED vars
         ]_vars

\* two sessions were closed by a FIN or RST: their jobs are finalized with no
\* time passed and no Stop
C18_Witness ==
    /\ Cardinality(DOMAIN finalized) = 2
    /\ DOMAIN sessions = {}
    /\ now < IdleTimeout
    /\ stopPC = "idle"


\* C19: while Store.Save is at work on the filesystem, no task holds the session
\* lock.
C19_SaveOutsideLock == saveSt.pc.step \notin {"idle", "returned"} => mu = "none"


\* the persisted jobs that carry reprint_of_job_id
PersistedReprints ==
    {j \in JobIDs : Persisted(j) /\ "reprint_of_job_id" \in DOMAIN files[j].json.content}

\* the job a persisted reprint refers to, as finalizeSession left it
OriginalOf(j) == finalized[files[j].json.content.reprint_of_job_id].job

\* C20 as stated: for every persisted job j whose reprint_of is k,
\* j.capture_start_ts - k.capture_start_ts is at most the reprint window.
C20_StartWithinWindow ==
    \A j \in PersistedReprints :
        files[j].json.content.capture_start_ts - OriginalOf(j).CaptureStartTS <= Window

\* C20: for every persisted job j whose reprint_of is k, k was finalized before
\* j and at most the reprint window before it (Close, Check and Record of one
\* finalization read the clock at one instant, capture_end_ts).
C20_FinalizedWithinWindow ==
    \A j \in PersistedReprints :
        LET k == files[j].json.content.reprint_of_job_id IN
        /\ k \in DOMAIN finalized
        /\ finalized[k].ord < finalized[j].ord
        /\ files[j].json.content.capture_end_ts - OriginalOf(j).CaptureEndTS \in 0..Window

\* a persisted reprint finalized a full window after its original, its session
\* opened more than a window after the original's
C20_Witness ==
    \E j \in PersistedReprints :
        /\ files[j].json.content.capture_end_ts - OriginalOf(j).CaptureEndTS = Window
        /\ files[j].json.content.capture_start_ts - OriginalOf(j).CaptureStartTS > Window


\* C21: while processJob works on a job whose sidecar on disk is "pending" with
\* attempts = n > 0, the request in flight is attempt n + 1 and the status about
\* to be written carries attempts >= n.
C21_AttemptsContinue ==
    wk.pc \in {"http", "trunc"} =>
        LET sc == sidecars[wk.id] IN
        (sc.valid /\ sc.st.Status = "pending" /\ sc.st.Attempts > 0) =>
            /\ wk.pc = "http" => wk.attempt = sc.st.Attempts + 1
            /\ wk.pc = "trunc" => wk.status.Attempts >= sc.st.Attempts


\* C22: once Stop has closed done, and for as long as the process runs, no
\* request is sent, no request in flight is awaited to its answer, no job is
\* taken from the queue and no sidecar changes.
C22_StopCancelsUpload ==
    [][(upDone /\ upDone') =>
           /\ ~(wk.pc # "http" /\ wk'.pc = "http")
           /\ ~(wk.pc = "http" /\ wk'.pc = "trunc")
           /\ Len(queue') >= Len(queue)
           /\ sidecars' = sidecars
      ]_vars


\* C23: the payload of a job is held in sequence order: a new data segment whose
\* sequence number lies above those the session has accepted is appended, one
\* whose sequence number lies below them is put in front.  (The payload at close
\* is what <id>.bin receives, C2.)
C23_SequenceOrder ==
    [][\A p \in OpenData :
           HandlePacket(p) =>
               LET old == sessions[Classify(p).key]
                   new == sessions'[Classify(p).key]
               IN  p.seq \notin old.seqTracker =>
                       /\ (\A sq \in old.seqTracker : sq < p.seq) =>
                              new.job.Data = old.job.Data \o p.payload
                       /\ (\A sq \in old.seqTracker : sq > p.seq) =>
                              new.job.Data = p.payload \o old.job.Data
      ]_vars


\* C24: when main has come to the end of the graceful shutdown (capturer.Stop()
\* and uploader.Stop() have returned), every long-lived task has terminated: the
\* packet loop, the idle-timeout sweeper, the uploader worker, the startup scan
\* and the cleanup task of the reprint detector.
C24_AllTasksExit ==
    (stopPC = "stopped" /\ upPC = "stopped") =>
        /\ pktTask = "exited"
        /\ sweepTask = "exited"
        /\ wk.pc \in {"off", "exited"}
        /\ scan.pc \in {"off", "exited"}
        /\ cleanTask = "exited"


\* C25: the key of every session is (client_ip, client_port, printer_ip,
\* printer_port) with a printer on the destination side, and the packets of both
\* directions of its flow are mapped to that key.
C25_OneKeyPerFlow ==
    \A k \in DOMAIN sessions :
        LET client == <<k[1], k[2]>>
            printer == <<k[3], k[4]>>
        IN  /\ printer \in Printers
            /\ client[1] = Client[1]
            /\ Classify(Packet(client, printer, {}, 100, <<>>)).key = k
            /\ Classify(Packet(printer, client, {}, 100, <<>>)).key = k


\* C26: a job is finalized at most once, whichever of FIN/RST from either side,
\* idle timeout and shutdown drain come together: no open session holds a job
\* that has been finalized, no two sessions hold the same job, and once a job
\* is finalized neither its outcome nor its files change again.
C26_FinalizedOnce ==
    /\ [](/\ \A k \in DOMAIN sessions : sessions[k].job.JobID \notin DOMAIN finalized
          /\ \A k1, k2 \in DOMAIN sessions :
                 sessions[k1].job.JobID = sessions[k2].job.JobID => k1 = k2)
    /\ [][\A id \in DOMAIN finalized :
              /\ id \in DOMAIN finalized'
              /\ finalized'[id] = finalized[id]
              /\ files'[id] = files[id]
         ]_vars

\* Stop has drained a session and persisted its job after another job had been
\* persisted at an earlier time, by a FIN, a RST or an idle timeout
C26_Witness ==
    /\ stopPC = "stopped"
    /\ \E a, b \in JobsWith("saved") :
           /\ finalized[a].job.CaptureEndTS < finalized[b].job.CaptureEndTS
           /\ b \in openAtStop
           /\ Persisted(a) /\ Persisted(b)


\* the sessions that are idle for at least the idle timeout
IdleSessions == {k \in DOMAIN sessions : now - sessions[k].lastSeen >= IdleTimeout}

\* C27: an idle-timeout tick removes exactly the sessions with
\* now - last_seen >= idle_timeout and finalizes the jobs of exactly these; every
\* other session is untouched; after the tick no session is idle, so that a
\* tick that finds no idle session (a second tick, a tick after the session
\* was removed) changes nothing.
C27_TickRemovesIdle ==
    [][(/\ UNCHANGED <<done, pktTask, sweepTask, stopPC, bytesCaptured, nextID, now>>
        /\ CheckTimeouts) =>
           /\ DOMAIN sessions' = (DOMAIN sessions) \ IdleSessions
           /\ \A k \in DOMAIN sessions' : sessions'[k] = sessions[k]
           /\ (DOMAIN finalized') \ (DOMAIN finalized)
                  = {sessions[k].job.JobID : k \in IdleSessions}
           /\ {k \in DOMAIN sessions' : now' - sessions'[k].lastSeen >= IdleTimeout} = {}
           /\ IdleSessions = {} => UNCHANGED vars
      ]_vars

\* the sweeper runs, a job was finalized one idle timeout or more after its
\* session opened, and a session that is not idle is still open
C27_Witness ==
    /\ sweepTask = "running"
    /\ \E id \in DOMAIN finalized :
           finalized[id].job.CaptureEndTS - finalized[id].job.CaptureStartTS >= IdleTimeout
    /\ \E k \in DOMAIN sessions : k \notin IdleSessions


\* the packets from a printer port that carry neither FIN nor RST (with or
\* without SYN, with or without payload)
FromPrinterPackets ==
    {p \in Packets :
        ~IsPrinterPort(p.dst[2]) /\ IsPrinterPort(p.src[2]) /\ ~p.FIN /\ ~p.RST}

\* C28: handling a packet from the printer that carries neither FIN nor RST
\* changes nothing: no session is created, no last_seen refreshed, no payload
\* appended, no counter changed.
C28_FromPrinterIgnored ==
    [][\A p \in FromPrinterPackets : HandlePacket(p) => UNCHANGED vars]_vars

\* the packet task runs and a session is open whose last_seen lies in the past,
\* while the printer of its flow sends packets, one of them with payload
C28_Witness ==
    /\ pktTask = "running"
    /\ \E p \in FromPrinterPackets :
           /\ p.payload # <<>>
           /\ FlowOf(p) \in DOMAIN sessions
           /\ sessions[FlowOf(p)].lastSeen < now
           /\ sessions[FlowOf(p)].job.Data # <<>>


\* C29: handling a SYN toward the printer for a flow whose session is open
\* changes neither the session's job nor its last_seen nor its set of accepted
\* sequence numbers, and creates no session and no job.
C29_SynOnOpenIgnored ==
    [][\A p \in SynPackets :
           (FlowOf(p) \in DOMAIN sessions /\ HandlePacket(p)) =>
               /\ DOMAIN sessions' = DOMAIN sessions
               /\ sessions'[FlowOf(p)].job = sessions[FlowOf(p)].job
               /\ sessions'[FlowOf(p)].lastSeen = sessions[FlowOf(p)].lastSeen
               /\ sessions'[FlowOf(p)].seqTracker = sessions[FlowOf(p)].seqTracker
               /\ nextID' = nextID
      ]_vars


\* C30 as stated: the capture_start_ts of a job is the time at which the first
\* payload-bearing packet of its session was handled.
C30_StartAtFirstPayload ==
    [][\A k \in (DOMAIN sessions) \cap (DOMAIN sessions') :
           (sessions[k].job.Data = <<>> /\ sessions'[k].job.Data # <<>>) =>
               sessions'[k].job.CaptureStartTS = now
      ]_vars

\* C30: the capture_start_ts of a job is the time at which its session was
\* created by the SYN; it stays as it is while the session is open, whatever
\* payload arrives, and is the value finalizeSession hands on and Save writes.
C30_StartAtSessionOpen ==
    /\ [](\A id \in JobIDs :
              Persisted(id) =>
                  /\ id \in DOMAIN finalized
                  /\ files[id].json.content.capture_start_ts
                         = finalized[id].job.CaptureStartTS)
    /\ [][/\ \A k \in (DOMAIN sessions') \ (DOMAIN sessions) :
                 sessions'[k].job.CaptureStartTS = now
          /\ \A k \in (DOMAIN sessions) \cap (DOMAIN sessions') :
                 sessions'[k].job.CaptureStartTS = sessions[k].job.CaptureStartTS
          /\ \A id \in (DOMAIN finalized') \ (DOMAIN finalized) :
                 \E k \in DOMAIN sessions :
                     /\ sessions[k].job.JobID = id
                     /\ finalized'[id].job.CaptureStartTS = sessions[k].job.CaptureStartTS
         ]_vars

\* a job opened at one time and closed at a later one is persisted, and a
\* session opened by a SYN in the past is still waiting for its first payload
C30_Witness ==
    /\ \E id \in JobIDs :
           /\ Persisted(id)
           /\ files[id].json.content.capture_start_ts < files[id].json.content.capture_end_ts
    /\ \E k \in DOMAIN sessions :
           /\ sessions[k].job.Data = <<>>
           /\ sessions[k].job.CaptureStartTS > 0
           /\ sessions[k].job.CaptureStartTS < now


---------------------------------------------------------------------------
(* The reprint detector taken alone: Record and Check called with any hash and
   printer, the cleanup task, and a clock that runs past the cleanup TTL *)

\* the clock of the detector runs two ticks past the TTL
MaxDetectorTime == CleanTTL + 2

\* the hashes and printer IPs the detector is called with
DetectorHashes == {Sha256Hex(<<1>>), Sha256Hex(<<2>>)}
DetectorPrinters == {PrinterA[1], PrinterB[1]}

\* ReprintDetector.Record(hash, printerIP, jobID) with a fresh job ID
DetectorRecord(hash, printerIP) ==
    /\ nextID <= MaxRecords
    /\ hashes' = ReprintRecord(hashes, hash, printerIP, nextID, now)
    /\ nextID' = nextID + 1
    /\ UNCHANGED <<sessions, done, pktTask, sweepTask, stopPC, jobsCaptured,
                   bytesCaptured, parseErrors, files, now, finalized, openAtStop>>
    /\ UNCHANGED <<storeVars, uploadVars, lockVars, detectorVars, orderVars>>

\* time passes
DetectorTick ==
    /\ now < MaxDetectorTime
    /\ now' = now + 1
    /\ UNCHANGED <<sessions, done, pktTask, sweepTask, stopPC, jobsCaptured,
                   bytesCaptured, parseErrors, files, hashes, nextID, finalized,
                   openAtStop>>
    /\ UNCHANGED <<storeVars, uploadVars, lockVars, detectorVars, orderVars>>

NextDetector ==
    \/ \E h \in DetectorHashes : \E ip \in DetectorPrinters : DetectorRecord(h, ip)
    \/ CleanupTick
    \/ DetectorTick

SpecDetector == Init /\ [][NextDetector]_vars

\* the entries of the bucket of hash that match the printer and are no older
\* than the window at the current time
Matching(hash, printerIP) ==
    IF hash \notin DOMAIN hashes THEN {}
    ELSE {i \in DOMAIN hashes[hash] :
             /\ hashes[hash][i].printerIP = printerIP
             /\ now - hashes[hash][i].timestamp <= Window}

\* C32: Check(hash, printer_ip) returns the job ID of the earliest-recorded
\* entry of the hash whose printer matches and whose age is at most the window,
\* and the empty result when there is none; the entries of a bucket stand in
\* the order of their recording (job IDs and timestamps ascending), and Record
\* adds its entry at the end of the bucket and touches nothing else.
C32_CheckEarliestInWindow ==
    /\ [](\A h \in DetectorHashes : \A ip \in DetectorPrinters :
            LET r == ReprintCheck(hashes, h, ip, now)
                m == Matching(h, ip)
            IN  /\ (r = NoJobID) <=> (m = {})
                /\ m # {} =>
                       \E i \in m :
                           /\ hashes[h][i].jobID = r
                           /\ \A k \in m : hashes[h][i].jobID <= hashes[h][k].jobID
                                           /\ i <= k)
    /\ [](\A h \in DOMAIN hashes : \A i, k \in DOMAIN hashes[h] :
            i < k => /\ hashes[h][i].jobID < hashes[h][k].jobID
                     /\ hashes[h][i].timestamp <= hashes[h][k].timestamp)
    /\ [][nextID' # nextID =>
            \E h \in DetectorHashes :
                /\ h \in DOMAIN hashes'
                /\ Len(hashes'[h]) = (IF h \in DOMAIN hashes THEN Len(hashes[h]) ELSE 0) + 1
                /\ hashes'[h][Len(hashes'[h])].jobID = nextID
                /\ hashes'[h][Len(hashes'[h])].timestamp = now
                /\ \A i \in 1..(Len(hashes'[h]) - 1) : hashes'[h][i] = hashes[h][i]
                /\ \A g \in DetectorHashes \ {h} :
                       /\ g \in DOMAIN hashes' <=> g \in DOMAIN hashes
                       /\ g \in DOMAIN hashes => hashes'[g] = hashes[g]
         ]_vars

\* a bucket holds an entry that is too old for the window followed by two of the
\* same printer that are not: Check returns the second of the three
C32_Witness ==
    \E h \in DOMAIN hashes :
        /\ Len(hashes[h]) = 3
        /\ hashes[h][1].printerIP = hashes[h][2].printerIP
        /\ hashes[h][2].printerIP = hashes[h][3].printerIP
        /\ now - hashes[h][1].timestamp > Window
        /\ now - hashes[h][2].timestamp <= Window
        /\ ReprintCheck(hashes, h, hashes[h][1].printerIP, now) = hashes[h][2].jobID

\* C33: the cleanup removes exactly the entries older than 2 x window, keeps the
\* others in their order and leaves no empty bucket; for every hash and printer
\* Check gives the same answer right before and right after it.
C33_SweepKeepsAnswers ==
    [][CleanupTick =>
          /\ \A h \in DetectorHashes : \A ip \in DetectorPrinters :
                 ReprintCheck(hashes', h, ip, now') = ReprintCheck(hashes, h, ip, now)
          /\ \A h \in DOMAIN hashes :
                 LET kept == SelectSeq(hashes[h], LAMBDA e : ~(now - e.timestamp > 2 * Window))
                 IN  IF kept = <<>> THEN h \notin DOMAIN hashes'
                     ELSE h \in DOMAIN hashes' /\ hashes'[h] = kept
          /\ DOMAIN hashes' \subseteq DOMAIN hashes
      ]_vars

\* the cleanup has evicted an entry from a bucket and left a younger one, which
\* Check still returns
C33_Witness ==
    \E h \in DOMAIN hashes :
        /\ Len(hashes[h]) = 1
        /\ hashes[h][1].jobID = 2
        /\ nextID = 3
        /\ DOMAIN hashes = {h}
        /\ ReprintCheck(hashes, h, hashes[h][1].printerIP, now) = 2


\* C34: once the done channel is closed no packet is handled: no step creates a
\* session, appends payload to a session's job or adds to bytes_captured.
C34_NoPacketAfterDone ==
    [][done =>
          /\ DOMAIN sessions' \subseteq DOMAIN sessions
          /\ \A k \in DOMAIN sessions' :
                 sessions'[k].job.Data = sessions[k].job.Data
          /\ bytesCaptured' = bytesCaptured
      ]_vars


\* C35: QueueSize equals the number of paths buffered in the upload queue and is
\* never negative.
C35_QueueSizeExact ==
    /\ queueSize = Len(queue)
    /\ queueSize >= 0


\* the sessions a step finalizes, with the job finalizeSession makes of each
FinalizedNow ==
    {<<k, id>> \in (DOMAIN sessions) \X ((DOMAIN finalized') \ (DOMAIN finalized)) :
        sessions[k].job.JobID = id}

\* C36 as stated: once a job is closed no operation of the finalization path
\* changes any of its fields: the job finalizeSession leaves is the job as
\* Close sealed it, tags and reprint_of included.
C36_ClosedNeverMutated ==
    [][\A f \in FinalizedNow :
           finalized'[f[2]].job = JobClose(sessions[f[1]].job, now)
      ]_vars

\* C36, amended: the job finalizeSession leaves is the job as Close sealed it in
\* every field but tags and reprint_of; these two are either as sealed or,
\* for a detected reprint, reprint_of is the ID of an earlier job and tags is
\* the single tag "reprint"; Save and every later step leave the job as it is.
C36_ClosedOnlyTagged ==
    [][/\ \A f \in FinalizedNow :
              LET sealed == JobClose(sessions[f[1]].job, now)
                  left == finalized'[f[2]].job
              IN  /\ left.closed
                  /\ [left EXCEPT !.Tags = sealed.Tags,
                                  !.ReprintOfJobID = sealed.ReprintOfJobID] = sealed
                  /\ \/ left = sealed
                     \/ /\ left.ReprintOfJobID \in DOMAIN finalized
                        /\ left.Tags = <<"reprint">>
       /\ \A id \in DOMAIN finalized :
              /\ id \in DOMAIN finalized'
              /\ finalized'[id].job = finalized[id].job
      ]_vars

\* a closed job was marked as a reprint after it was sealed, and a later step
\* was taken with the job on record
C36_Witness ==
    \E id \in DOMAIN finalized :
        /\ finalized[id].job.closed
        /\ finalized[id].job.ReprintOfJobID # NoJobID
        /\ finalized[id].job.Tags = <<"reprint">>
        /\ finalized[id].job.CaptureEndTS < now


---------------------------------------------------------------------------
(* A job taken alone: any caller of job.New, Job.Append and Job.Close, in any
   order and at any time, on the job that is to be handed to Store.Save *)

\* job.New
CallerNew ==
    /\ nextID <= MaxJobs
    /\ saveJob' = NewJob(nextID, PrinterA[1], PrinterA[2], Client[1],
                         GetTransport(PrinterA[2]), now)
    /\ nextID' = nextID + 1
    /\ UNCHANGED <<sessions, done, pktTask, sweepTask, stopPC, jobsCaptured,
                   bytesCaptured, parseErrors, files, hashes, now, finalized,
                   openAtStop, saveSt, saveEnv>>
    /\ UNCHANGED <<uploadVars, lockVars, detectorVars, orderVars>>

\* Job.Append(data), on an open job or on a closed one
CallerAppend(data) ==
    /\ saveJob.JobID # NoJobID
    /\ saveJob.closed \/ Len(saveJob.Data) + Len(data) <= MaxJobLen
    /\ saveJob' = JobAppend(saveJob, data).job
    /\ UNCHANGED <<sessions, done, pktTask, sweepTask, stopPC, jobsCaptured,
                   bytesCaptured, parseErrors, files, hashes, nextID, now,
                   finalized, openAtStop, saveSt, saveEnv>>
    /\ UNCHANGED <<uploadVars, lockVars, detectorVars, orderVars>>

\* Job.Close, on an open job or on a closed one
CallerClose ==
    /\ saveJob.JobID # NoJobID
    /\ saveJob' = JobClose(saveJob, now)
    /\ UNCHANGED <<sessions, done, pktTask, sweepTask, stopPC, jobsCaptured,
                   bytesCaptured, parseErrors, files, hashes, nextID, now,
                   finalized, openAtStop, saveSt, saveEnv>>
    /\ UNCHANGED <<uploadVars, lockVars, detectorVars, orderVars>>

NextJob ==
    \/ CallerNew
    \/ \E data \in {<<1>>, <<2>>} : CallerAppend(data)
    \/ CallerClose
    \/ Tick

SpecJob == Init /\ [][NextJob]_vars

\* C37: after Close the payload, byte_len, sha256 and capture_end_ts of a job
\* never change: on a closed job Append returns false and leaves the job as it
\* is, and Close leaves it as it is at whatever time it is called; byte_len and
\* sha256 are those of the entire payload.
C37_SealedForGood ==
    /\ [](saveJob.closed =>
            /\ \A data \in {<<1>>, <<2>>} :
                   /\ ~JobAppend(saveJob, data).ok
                   /\ JobAppend(saveJob, data).job = saveJob
            /\ JobClose(saveJob, now) = saveJob
            /\ saveJob.ByteLen = Len(saveJob.Data)
            /\ saveJob.SHA256 = Sha256Hex(saveJob.Data)
            /\ saveJob.CaptureEndTS <= now)
    /\ [][(saveJob.closed /\ saveJob'.JobID = saveJob.JobID) =>
            /\ saveJob'.closed
            /\ saveJob'.Data = saveJob.Data
            /\ saveJob'.ByteLen = saveJob.ByteLen
            /\ saveJob'.SHA256 = saveJob.SHA256
            /\ saveJob'.CaptureEndTS = saveJob.CaptureEndTS
         ]_vars

\* a job of two bytes was closed and the clock has moved on since, so that a
\* second Close would stamp another end and an Append would lengthen it
C37_Witness ==
    /\ saveJob.closed
    /\ Len(saveJob.Data) = MaxJobLen
    /\ saveJob.CaptureEndTS < now
    /\ saveJob.CaptureStartTS < saveJob.CaptureEndTS


ClosingData ==
    {p \in Packets :
        /\ Classify(p).printer
        /\ Classify(p).toward
        /\ (p.FIN \/ p.RST)
        /\ p.payload # <<>>}

---------------------------------------------------------------------------
(* The locks: every task as the sequence of Lock and Unlock calls it makes.
   What a call does to the data is left out; which of its paths a call takes
   is open. The job mutex stands for the mutex of whichever job the holder of
   Capturer.mu works on. *)

Acquire(l) == [op |-> "lock", l |-> l]
Release(l) == [op |-> "unlock", l |-> l]

\* mu.Lock(); defer mu.Unlock() around body
Locked(l, body) == <<Acquire(l)>> \o body \o <<Release(l)>>

\* Job.Append, Close, IsClosed, GetHash, SetReprintOf
JobCall == Locked("job", <<>>)

\* ReprintDetector.Check, Record
DetectorCall == Locked("detector", <<>>)

\* Store.Save: s.mu, then job.IsClosed
SaveCall == Locked("store", JobCall)

\* finalizeSession: Close and the empty check; else GetHash, Check, SetReprintOf
\* on a match, GetHash, Record, Save
FinalizeCalls ==
    {JobCall,
     JobCall \o JobCall \o DetectorCall \o JobCall \o DetectorCall \o SaveCall,
     JobCall \o JobCall \o DetectorCall \o JobCall \o JobCall \o DetectorCall \o SaveCall}

\* finalizeSession for up to n sessions in a row
RECURSIVE FinalizeLoops(_)
FinalizeLoops(n) ==
    IF n = 0 THEN {<<>>}
    ELSE {<<>>} \cup {f \o rest : f \in FinalizeCalls, rest \in FinalizeLoops(n - 1)}

\* handlePacket: no session touched, session closed, or payload appended
PacketScripts ==
    {Locked("capturer", <<>>), Locked("capturer", JobCall)}
    \cup {Locked("capturer", f) : f \in FinalizeCalls}

\* checkTimeouts, and the drain loop of Stop
SweepScripts == {Locked("capturer", fs) : fs \in FinalizeLoops(MaxJobs)}

\* GetActiveSessions
ReaderScripts == {Locked("capturer", <<>>)}

\* a cleanup that reads the session table while it holds the detector
CleanupScriptsUnderTable == {Locked("detector", Locked("capturer", <<>>))}

\* ReprintDetector.cleanup
CleanupScripts == {Locked("detector", <<>>)}

\* the holder of a lock
Holder(l) == IF l = "capturer" THEN mu ELSE held[l]

\* the locks a task holds
HeldBy(t) == {l \in OrderLocks \cup {"capturer"} : Holder(l) = t}

\* the task is at a Lock call on a mutex that is held
Waiting(t) ==
    /\ script[t] # <<>>
    /\ Head(script[t]).op = "lock"
    /\ Holder(Head(script[t]).l) # "none"

\* a task enters a call: a packet arrives, a ticker fires, a stats request comes
OrderCall(t) ==
    /\ script[t] = <<>>
    /\ CASE t = "packet" ->
                /\ pktTask = "running"
                /\ \E s \in PacketScripts : script' = [script EXCEPT ![t] = s]
                /\ UNCHANGED stopPC
         [] t = "sweeper" ->
                /\ sweepTask = "running"
                /\ \E s \in SweepScripts : script' = [script EXCEPT ![t] = s]
                /\ UNCHANGED stopPC
         [] t = "stop" ->
                /\ stopPC = "waiting" /\ pktTask = "exited" /\ sweepTask = "exited"
                /\ \E s \in SweepScripts : script' = [script EXCEPT ![t] = s]
                /\ stopPC' = "draining"
         [] t = "reader" ->
                /\ \E s \in ReaderScripts : script' = [script EXCEPT ![t] = s]
                /\ UNCHANGED stopPC
         [] t = "cleanup" ->
                /\ cleanTask = "running"
                /\ \E s \in CleanupScripts : script' = [script EXCEPT ![t] = s]
                /\ UNCHANGED stopPC
    /\ UNCHANGED <<sessions, done, pktTask, sweepTask, jobsCaptured, bytesCaptured,
                   parseErrors, files, hashes, nextID, now, finalized, openAtStop>>
    /\ UNCHANGED <<storeVars, uploadVars, lockVars, detectorVars>>
    /\ UNCHANGED held

\* a task makes its next Lock or Unlock call; Stop returns after its last
OrderStep(t) ==
    /\ script[t] # <<>>
    /\ LET o == Head(script[t])
           to == IF o.op = "lock" THEN t ELSE "none"
       IN  /\ Holder(o.l) = (IF o.op = "lock" THEN "none" ELSE t)
           /\ IF o.l = "capturer" THEN mu' = to /\ UNCHANGED held
              ELSE held' = [held EXCEPT ![o.l] = to] /\ UNCHANGED mu
    /\ script' = [script EXCEPT ![t] = Tail(script[t])]
    /\ stopPC' = IF t = "stop" /\ Len(script[t]) = 1 THEN "stopped" ELSE stopPC
    /\ UNCHANGED <<sessions, done, pktTask, sweepTask, jobsCaptured, bytesCaptured,
                   parseErrors, files, hashes, nextID, now, finalized, openAtStop>>
    /\ UNCHANGED <<storeVars, uploadVars, detectorVars>>

\* processPackets and sessionTimeoutLoop return between two calls
OrderPacketExit == script["packet"] = <<>> /\ PacketLoopExit
OrderSweeperExit == script["sweeper"] = <<>> /\ SweeperExit

NextOrder ==
    \/ \E t \in OrderTasks : OrderCall(t)
    \/ \E t \in OrderTasks : OrderStep(t)
    \/ StopBegin
    \/ OrderPacketExit
    \/ OrderSweeperExit

\* sync.Mutex hands a lock that is freed again and again to a task that keeps
\* waiting for it (starvation mode), and a running task makes its next call
SpecOrder ==
    /\ Init
    /\ [][NextOrder]_vars
    /\ \A t \in OrderTasks : SF_vars(OrderStep(t))

\* the pairs (held, taken next) of the order session table -> (reprint
\* detector | store -> job)
LockOrder ==
    {<<"capturer", "detector">>, <<"capturer", "store">>, <<"capturer", "job">>,
     <<"store", "job">>}

\* C39: no interleaving of the packet task, the sweeper, Stop, GetActiveSessions
\* and the reprint cleanup deadlocks: a task takes a lock only while every lock
\* it holds comes before it in the order session table -> (reprint detector |
\* store -> job); whenever a task is inside a call some task can make its next
\* call; a task between two calls holds no lock; every lock that is held is
\* released and every task that waits for a lock gets on.
C39_NoDeadlock ==
    /\ [](\A t \in OrderTasks :
            /\ (script[t] # <<>> /\ Head(script[t]).op = "lock") =>
                   \A l \in HeldBy(t) : <<l, Head(script[t]).l>> \in LockOrder
            /\ script[t] = <<>> => HeldBy(t) = {})
    /\ []((\E t \in OrderTasks : script[t] # <<>>) =>
              \E t \in OrderTasks : script[t] # <<>> /\ ~Waiting(t))
    /\ \A t \in OrderTasks :
           /\ Waiting(t) ~> ~Waiting(t)
           /\ \A l \in OrderLocks \cup {"capturer"} : (Holder(l) = t) ~> (Holder(l) # t)

\* the packet task is inside Store.Save with the session table, the store and
\* the job locked, the cleanup task holds the detector, and the sweeper and a
\* reader wait for the session table
C39_Witness ==
    /\ HeldBy("packet") = {"capturer", "store", "job"}
    /\ HeldBy("cleanup") = {"detector"}
    /\ Waiting("sweeper")
    /\ Waiting("reader")

================================================================
